---- MODULE Spec2Model ----
(***************************************************************************)
(* A model of the allocators of buddy (src/buddy.c): the temporary (bump)  *)
(* allocator, the arena and the pool, over a byte-addressed memory.        *)
(*                                                                         *)
(* Memory is a function from the addresses of live objects to bytes.  The  *)
(* block header is laid out as the compiler lays it out: 8 bytes of        *)
(* signature, 8 bytes of size, little endian.  u64 arithmetic is done      *)
(* modulo U64, a scaled-down 2^64, so that the wrap-around of the code's   *)
(* unsigned sums happens inside the model's bounds.                        *)
(***************************************************************************)
EXTENDS Integers, Sequences, FiniteSets, TLC

VARIABLES
    pc,      \* "run"; "panic" (panic() -> os_exit(1)); "ub" (the process has
             \* accessed memory outside every live object: undefined from here on)
    head,    \* _temp_alloc_head, as an offset from _temp_alloc_buffer
    mem,     \* the bytes of the live objects, by address
    arena,   \* the Arena structs, by arena
    pool,    \* the pool: the caller's handle, the backing region and the _pool struct
    marks,   \* history: the marks temp_mark has returned, each with the addresses
             \* an Allocate made right at the mark would return
    rst,     \* history: the mark restored by the operation just performed, or NoMark
    ptrs,    \* history: the blocks the caller holds, [p, n, by]
    last,    \* history: the operation just performed, its arguments and result
    budget,  \* operations the behaviour may still perform
    calls,   \* history: the calls arena_new, free_arena and the string builder
             \* have made to their backing allocators, in order
    sb,      \* the StringBuilder
    appended,\* history: the appends made to the builder, in order, each with the
             \* bytes given and what the append returned
    sop,     \* history: the string operation just performed and its result
    list,    \* the List (or SparseList)
    lseq,    \* history: the operations performed on the list since list_new,
             \* in order, each with its arguments
    lop      \* history: the list operation just performed, the list and its
             \* elements before it, and its result

vars == <<pc, head, mem, arena, pool, marks, rst, ptrs, last, budget,
          calls, sb, appended, sop, list, lseq, lop>>

\* the state of the string builder and the histories of the string operations
stringVars == <<sb, appended, sop>>

\* the state of the list and the histories of the list operations
listVars == <<list, lseq, lop>>

----------------------------------------------------------------------------
(* Bounds of the model *)

\* u64 arithmetic is modulo U64 (2^64 in the code)
U64 == 1024
\* TEMP_ALLOC_BUFSIZE is MB(8) in the code
TEMP_ALLOC_BUFSIZE == 64
\* operations performed in one behaviour of SpecTemp, SpecArena, SpecCross
MaxTempOps == 5
MaxArenaOps == 4
MaxCrossOps == 4
\* operations performed in one behaviour of SpecLife
MaxLifeOps == 4
\* operations performed in one behaviour of SpecBuilder and of SpecStr
MaxBuilderOps == 4
MaxStrOps == 2
\* the builder's buffer is not grown beyond this size
MaxBuilderSize == 256
\* operations performed in one behaviour of SpecList
MaxListOps == 4
\* marks a caller keeps
MaxMarks == 2
\* the capacities the two arenas are created with
ArenaCapA == 128
ArenaCapB == 48
\* the init_size the pool is created with
PoolInitSize == 64

(* Program constants *)

\* sizeof(BlockHeader): two u64
HeaderSize == 16
\* sizeof(Arena): mem, size, pos and the backing Allocator (two pointers)
ArenaStructSize == 40
\* sizeof(_pool): the backing Allocator (two pointers), cap, size and mem
PoolStructSize == 40
NULL == 0

\* the value of a byte of heap memory that was never written: indeterminate
Undef == -1

\* The signatures as they lie in memory (little endian)
TEMP_BLOCK_SIGNATURE == <<231, 254, 15, 252, 202, 222, 173, 222>>
POOL_BLOCK_SIGNATURE == <<151, 222, 31, 252, 10, 222, 237, 218>>
ARENA_BLOCK_SIGNATURE == <<13, 0, 0, 240, 190, 190, 186, 186>>

----------------------------------------------------------------------------
(* Memory *)

\* the 8 bytes of a u64, least significant first (values stay below 2^16)
U64Bytes(v) ==
    [i \in 1..8 |-> IF i = 1 THEN v % 256 ELSE IF i = 2 THEN (v \div 256) % 256 ELSE 0]

\* n bytes from address a on lie inside live objects
Mapped(m, a, n) ==
    /\ n <= Cardinality(DOMAIN m)
    /\ \A i \in 0..(n - 1) : (a + i) \in DOMAIN m

ReadBytes(m, a, n) == [i \in 1..n |-> m[a + i - 1]]

\* a u64 read from memory; one that does not fit the model's integers, or
\* that is read from bytes never written, reads as 2^16
ReadU64(m, a) ==
    IF (\E i \in 2..7 : m[a + i] # 0) \/ m[a] = Undef \/ m[a + 1] = Undef
    THEN 256 * 256
    ELSE m[a] + 256 * m[a + 1]

WriteBytes(m, a, bs) ==
    [x \in DOMAIN m |-> IF x >= a /\ x < a + Len(bs) THEN bs[x - a + 1] ELSE m[x]]

\* BlockHeader h = {signature, size} stored at address a
WriteHeader(m, a, sig, size) == WriteBytes(m, a, sig \o U64Bytes(size))

zero_memory(m, p, size) ==
    [x \in DOMAIN m |-> IF x >= p /\ x < p + size THEN 0 ELSE m[x]]

RECURSIVE copy_loop(_, _, _, _, _)
copy_loop(m, dest, source, i, size) ==
    IF i >= size THEN m
    ELSE CHOOSE r \in {copy_loop(n, dest, source, i + 1, size) :
                           n \in {[m EXCEPT ![dest + i] = m[source + i]]}} : TRUE

copy_memory(m, dest, source, size) == copy_loop(m, dest, source, 0, size)

_get_block_header(p) == p - HeaderSize

----------------------------------------------------------------------------
(* The temporary allocator.  _temp_alloc_buffer is taken to start at       *)
(* address 0 and to be 8-byte aligned; addresses 0..TEMP_ALLOC_BUFSIZE-1   *)
(* are the buffer.                                                         *)

TempAddrs == 0..(TEMP_ALLOC_BUFSIZE - 1)

_align_to_8bytes(ptr) == (ptr + (8 - (ptr % 8))) % U64

\* the result of a dispatch: the process state, the head, the memory, the
\* returned pointer and the number of bytes a Reallocate copied
Result(p, h, m, r, c) == [pc |-> p, head |-> h, mem |-> m, ret |-> r, ncopy |-> c]

temporary_allocator_proc_ALLOC(h, m, size) ==
    LET actual_size == (size + HeaderSize) % U64
        aligned == _align_to_8bytes(h)
    IN  IF (h + actual_size) % U64 > TEMP_ALLOC_BUFSIZE
        THEN Result("panic", h, m, NULL, 0)
        ELSE IF ~Mapped(m, aligned, HeaderSize)
        THEN Result("ub", h, m, NULL, 0)
        ELSE Result("run", (aligned + actual_size) % U64,
                    WriteHeader(m, aligned, TEMP_BLOCK_SIGNATURE, size),
                    aligned + HeaderSize, 0)

temporary_allocator_proc_ZERO_ALLOC(h, m, size) ==
    LET r == temporary_allocator_proc_ALLOC(h, m, size)
    IN  IF r.pc # "run" \/ r.ret = NULL THEN r
        ELSE IF ~Mapped(r.mem, r.ret, size) THEN Result("ub", r.head, r.mem, NULL, 0)
        ELSE Result("run", r.head, zero_memory(r.mem, r.ret, size), r.ret, 0)

temporary_allocator_proc_REALLOC(h, m, size, old_ptr) ==
    IF old_ptr = NULL THEN Result("run", h, m, NULL, 0)
    ELSE IF ~Mapped(m, _get_block_header(old_ptr), HeaderSize)
    THEN Result("ub", h, m, NULL, 0)
    ELSE IF ReadBytes(m, _get_block_header(old_ptr), 8) # TEMP_BLOCK_SIGNATURE
    THEN Result("run", h, m, NULL, 0)
    ELSE LET r == temporary_allocator_proc_ALLOC(h, m, size)
             n == ReadU64(r.mem, _get_block_header(old_ptr) + 8)
         IN  IF r.pc # "run" \/ r.ret = NULL THEN r
             ELSE IF ~Mapped(r.mem, r.ret, n) \/ ~Mapped(r.mem, old_ptr, n)
             THEN Result("ub", r.head, r.mem, NULL, 0)
             ELSE Result("run", r.head, copy_memory(r.mem, r.ret, old_ptr, n), r.ret, n)

temporary_allocator_proc_FREE(h, m, old_ptr) == Result("run", h, m, NULL, 0)

temp_mark_id(h) == h

\* a restore that rounds the mark up to the next 8 byte interval
temp_restore_mark_head_aligned(id) == _align_to_8bytes(id)

temp_restore_mark_head(id) == id

reset_temp_memory_head == 0

----------------------------------------------------------------------------
(* History kept for the properties *)

\* sizes a caller asks the temporary allocator for: small ones, the buffer
\* but for one header, the whole buffer, and one whose sum with the header
\* size comes close to wrapping
TempSizes == {0, 3, 8, 24, TEMP_ALLOC_BUFSIZE - HeaderSize, TEMP_ALLOC_BUFSIZE, U64 - 32}

\* what an Allocate of each size would do in a state with head h
Probe(h, m) ==
    [s \in TempSizes |->
        LET r == temporary_allocator_proc_ALLOC(h, m, s) IN <<r.pc, r.ret>>]

NoMark == [id |-> -1, probe |-> [s \in TempSizes |-> <<"none", NULL>>], from |-> -1]

Block(p, n, by, hdr) == [p |-> p, n |-> n, by |-> by, hdr |-> hdr]

NoBlock == Block(NULL, 0, "none", FALSE)

\* the addresses whose byte differs between m1 and m2
Changed(m1, m2) ==
    {x \in DOMAIN m1 \cup DOMAIN m2 :
        x \notin DOMAIN m1 \/ x \notin DOMAIN m2 \/ m1[x] # m2[x]}

\* op: the operation; who: the allocator it went to; size, blk: its arguments;
\* ret: what it returned; ncopy: bytes a Reallocate copied; pre: the head or
\* position before it; after: the mark restored just before it; changed: the
\* addresses whose byte it changed
Op(op, who, size, blk, ret, ncopy, pre, after, changed) ==
    [op |-> op, who |-> who, size |-> size, blk |-> blk, ret |-> ret,
     ncopy |-> ncopy, pre |-> pre, after |-> after, changed |-> changed]

NoOp == Op("none", "none", 0, NoBlock, NULL, 0, 0, NoMark, {})

\* ERROR_STRING_BUILDER; a is the backing allocator
ERROR_STRING_BUILDER == [a |-> "none", size |-> 0, length |-> 0, mem |-> NULL, err |-> TRUE]

NoStrOp == [op |-> "none"]

\* ERROR_LIST; a is the backing allocator
ERROR_LIST ==
    [a |-> "none", cap |-> 0, mem |-> NULL, size |-> 0, item_size |-> 0, err |-> TRUE]

NoListOp == [op |-> "none"]

\* no list has been made
InitLists == list = ERROR_LIST /\ lseq = <<>> /\ lop = NoListOp

\* no builder has been made and no string operation performed
InitStrings == sb = ERROR_STRING_BUILDER /\ appended = <<>> /\ sop = NoStrOp

\* the bytes a caller stores in a block of n bytes it owns
Pattern(n) == [i \in 1..n |-> 1 + (i % 7)]

----------------------------------------------------------------------------
(* Operations on the temporary allocator *)

\* the caller's blocks after a dispatch returned r
Issued(r, size, by) ==
    IF r.pc = "run" /\ r.ret # NULL
    THEN ptrs \cup {Block(r.ret, size, by, TRUE)}
    ELSE ptrs

\* a caller keeps no pointer into what a restore or a reset discards
KeptBelow(h) == {b \in ptrs : b.by # "temp" \/ _get_block_header(b.p) < h}

\* the process is alive and the behaviour is within its bound
Running == pc = "run" /\ budget > 0

TempStep(r) ==
    /\ pc' = r.pc
    /\ head' = r.head
    /\ mem' = r.mem
    /\ rst' = NoMark
    /\ budget' = budget - 1
    /\ UNCHANGED <<arena, pool, marks, calls, stringVars, listVars>>

temp_alloc(size) ==
    LET r == temporary_allocator_proc_ALLOC(head, mem, size)
    IN  /\ Running
        /\ TempStep(r)
        /\ ptrs' = Issued(r, size, "temp")
        /\ last' = Op("alloc", "temp", size, NoBlock, r.ret, 0, head, rst, Changed(mem, r.mem))

temp_zero_alloc(size) ==
    LET r == temporary_allocator_proc_ZERO_ALLOC(head, mem, size)
    IN  /\ Running
        /\ TempStep(r)
        /\ ptrs' = Issued(r, size, "temp")
        /\ last' = Op("zero_alloc", "temp", size, NoBlock, r.ret, 0, head, rst,
                     Changed(mem, r.mem))

temp_realloc(b, size) ==
    LET r == temporary_allocator_proc_REALLOC(head, mem, size, b.p)
    IN  /\ Running
        /\ TempStep(r)
        /\ ptrs' = Issued(r, size, "temp")
        /\ last' = Op("realloc", "temp", size, b, r.ret, r.ncopy, head, rst,
                     Changed(mem, r.mem))

temp_free(b) ==
    LET r == temporary_allocator_proc_FREE(head, mem, b.p)
    IN  /\ Running
        /\ TempStep(r)
        /\ ptrs' = ptrs
        /\ last' = Op("free", "temp", 0, b, r.ret, 0, head, rst, Changed(mem, r.mem))

reset_temp_memory ==
    /\ Running
    /\ head' = reset_temp_memory_head
    /\ ptrs' = KeptBelow(reset_temp_memory_head)
    /\ last' = Op("reset", "temp", 0, NoBlock, NULL, 0, head, rst, {})
    /\ rst' = NoMark
    /\ budget' = budget - 1
    /\ UNCHANGED <<pc, mem, arena, pool, marks, calls, stringVars, listVars>>

temp_mark ==
    /\ Running
    /\ Cardinality(marks) < MaxMarks
    /\ marks' = marks \cup {[id |-> temp_mark_id(head), probe |-> Probe(head, mem)]}
    /\ last' = Op("mark", "temp", 0, NoBlock, temp_mark_id(head), 0, head, rst, {})
    /\ rst' = NoMark
    /\ budget' = budget - 1
    /\ UNCHANGED <<pc, head, mem, arena, pool, ptrs, calls, stringVars, listVars>>

temp_restore_mark(mk) ==
    /\ Running
    /\ head' = temp_restore_mark_head(mk.id)
    /\ ptrs' = KeptBelow(mk.id)
    /\ last' = Op("restore", "temp", mk.id, NoBlock, NULL, 0, head, rst, {})
    /\ rst' = [id |-> mk.id, probe |-> mk.probe, from |-> head]
    /\ budget' = budget - 1
    /\ UNCHANGED <<pc, mem, arena, pool, marks, calls, stringVars, listVars>>

\* the caller writes into a block it holds
Fill(b) ==
    /\ Running
    /\ b.n > 0
    /\ IF Mapped(mem, b.p, b.n)
       THEN mem' = WriteBytes(mem, b.p, Pattern(b.n)) /\ pc' = pc
       ELSE mem' = mem /\ pc' = "ub"
    /\ last' = Op("fill", b.by, 0, b, NULL, 0, 0, rst, Changed(mem, mem'))
    /\ rst' = NoMark
    /\ budget' = budget - 1
    /\ UNCHANGED <<head, arena, pool, marks, ptrs, calls, stringVars, listVars>>

NoPool ==
    [data |-> NULL, live |-> NULL, bytes |-> 0, cap |-> 0, size |-> 0, mem |-> NULL,
     grown |-> 0]

InitTemp ==
    /\ pc = "run"
    /\ head = 0
    /\ mem = [a \in TempAddrs |-> 0]
    /\ arena = <<>>
    /\ pool = NoPool
    /\ marks = {}
    /\ rst = NoMark
    /\ ptrs = {}
    /\ last = NoOp
    /\ budget = MaxTempOps
    /\ calls = <<>>
    /\ InitStrings
    /\ InitLists

NextTemp ==
    \/ \E size \in TempSizes : temp_alloc(size)
    \/ \E size \in TempSizes : temp_zero_alloc(size)
    \/ \E b \in ptrs \cup {NoBlock}, size \in TempSizes : temp_realloc(b, size)
    \/ \E b \in ptrs : temp_free(b)
    \/ reset_temp_memory
    \/ temp_mark
    \/ \E mk \in marks : temp_restore_mark(mk)
    \/ \E b \in ptrs : Fill(b)

SpecTemp == InitTemp /\ [][NextTemp]_vars

----------------------------------------------------------------------------
(* The arena.  arena_new obtains size + sizeof(Arena) bytes from its       *)
(* backing allocator; the Arena struct lies at the start of that region    *)
(* and is kept in the variable arena, the size bytes after it are the      *)
(* arena's memory.  The arenas here are backed by the heap allocator.      *)

ArenaIds == {"A", "B"}

\* where malloc put the region of each arena
ArenaBase(i) == IF i = "A" THEN 1024 ELSE 2048

\* the capacity each arena is created with
ArenaCapacity(i) == IF i = "A" THEN ArenaCapA ELSE ArenaCapB

ArenaAddrs(i) ==
    (ArenaBase(i) + ArenaStructSize)..(ArenaBase(i) + ArenaStructSize + ArenaCapacity(i) - 1)

\* the Arena struct that arena_new(a, size) writes at base, the block its
\* backing allocator a returned
arena_new(a, base, size) ==
    [mem |-> base + ArenaStructSize, pos |-> 0, size |-> size, a |-> a]

ArenaResult(p, a, m, r, c) == [pc |-> p, arena |-> a, mem |-> m, ret |-> r, ncopy |-> c]

arena_alloc(a, size) ==
    IF (a.pos + size) % U64 > a.size
    THEN [ret |-> NULL, arena |-> a]
    ELSE [ret |-> a.mem + a.pos, arena |-> [a EXCEPT !.pos = (a.pos + size) % U64]]

arena_allocator_proc_ALLOC(a, m, size) ==
    LET r == arena_alloc(a, (size + HeaderSize) % U64)
    IN  IF r.ret = NULL THEN ArenaResult("run", a, m, NULL, 0)
        ELSE IF ~Mapped(m, r.ret, HeaderSize) THEN ArenaResult("ub", r.arena, m, NULL, 0)
        ELSE ArenaResult("run", r.arena,
                         WriteHeader(m, r.ret, ARENA_BLOCK_SIGNATURE, size),
                         r.ret + HeaderSize, 0)

arena_allocator_proc_ZERO_ALLOC(a, m, size) ==
    LET r == arena_allocator_proc_ALLOC(a, m, size)
    IN  IF r.pc # "run" \/ r.ret = NULL THEN r
        ELSE IF ~Mapped(r.mem, r.ret, size) THEN ArenaResult("ub", r.arena, r.mem, NULL, 0)
        ELSE ArenaResult("run", r.arena, zero_memory(r.mem, r.ret, size), r.ret, 0)

arena_allocator_proc_REALLOC(a, m, size, old_ptr) ==
    IF old_ptr = NULL THEN ArenaResult("run", a, m, NULL, 0)
    ELSE IF ~Mapped(m, _get_block_header(old_ptr), HeaderSize)
    THEN ArenaResult("ub", a, m, NULL, 0)
    ELSE IF ReadBytes(m, _get_block_header(old_ptr), 8) # ARENA_BLOCK_SIGNATURE
    THEN ArenaResult("run", a, m, NULL, 0)
    ELSE LET r == arena_allocator_proc_ALLOC(a, m, size)
             n == ReadU64(r.mem, _get_block_header(old_ptr) + 8)
         IN  IF r.pc # "run" \/ r.ret = NULL THEN r
             ELSE IF ~Mapped(r.mem, r.ret, n) \/ ~Mapped(r.mem, old_ptr, n)
             THEN ArenaResult("ub", r.arena, r.mem, NULL, 0)
             ELSE ArenaResult("run", r.arena, copy_memory(r.mem, r.ret, old_ptr, n),
                              r.ret, n)

\* case ALLOCATOR_MSG_FREE: break; and then the panic that ends the procedure
arena_allocator_proc_FREE(a, m, old_ptr) == ArenaResult("panic", a, m, NULL, 0)

----------------------------------------------------------------------------
(* Operations on the arenas *)

\* sizes a caller asks arena_alloc for: small ones, the example of the
\* specification (100 then 50 of 128), and one whose sum with the position
\* wraps
ArenaSizes == {0, 8, 50, 100, U64 - 50}

\* sizes a caller asks the arena's allocator for: small ones, and one whose
\* sum with the header size wraps
ArenaAllocSizes == {0, 8, 24, U64 - HeaderSize}

ArenaStep(i, r) ==
    /\ pc' = r.pc
    /\ arena' = [arena EXCEPT ![i] = r.arena]
    /\ mem' = r.mem
    /\ rst' = NoMark
    /\ budget' = budget - 1
    /\ UNCHANGED <<head, pool, marks, calls, stringVars, listVars>>

\* arena_alloc(a, size), called directly
ArenaAlloc(i, size) ==
    LET r == arena_alloc(arena[i], size)
    IN  /\ Running
        /\ ArenaStep(i, ArenaResult("run", r.arena, mem, r.ret, 0))
        /\ ptrs' = IF r.ret # NULL THEN ptrs \cup {Block(r.ret, size, i, FALSE)} ELSE ptrs
        /\ last' = Op("arena_alloc", i, size, NoBlock, r.ret, 0, arena[i].pos, rst, {})

\* alloc(get_arena_allocator(a), size)
ArenaAllocate(i, size) ==
    LET r == arena_allocator_proc_ALLOC(arena[i], mem, size)
    IN  /\ Running
        /\ ArenaStep(i, r)
        /\ ptrs' = Issued(r, size, i)
        /\ last' = Op("alloc", i, size, NoBlock, r.ret, 0, arena[i].pos, rst,
                     Changed(mem, r.mem))

ArenaZeroAllocate(i, size) ==
    LET r == arena_allocator_proc_ZERO_ALLOC(arena[i], mem, size)
    IN  /\ Running
        /\ ArenaStep(i, r)
        /\ ptrs' = Issued(r, size, i)
        /\ last' = Op("zero_alloc", i, size, NoBlock, r.ret, 0, arena[i].pos, rst,
                     Changed(mem, r.mem))

ArenaReallocate(i, b, size) ==
    LET r == arena_allocator_proc_REALLOC(arena[i], mem, size, b.p)
    IN  /\ Running
        /\ ArenaStep(i, r)
        /\ ptrs' = Issued(r, size, i)
        /\ last' = Op("realloc", i, size, b, r.ret, r.ncopy, arena[i].pos, rst,
                     Changed(mem, r.mem))

ArenaFree(i, b) ==
    LET r == arena_allocator_proc_FREE(arena[i], mem, b.p)
    IN  /\ Running
        /\ ArenaStep(i, r)
        /\ ptrs' = ptrs
        /\ last' = Op("free", i, 0, b, r.ret, 0, arena[i].pos, rst, Changed(mem, r.mem))

\* the blocks a Reallocate or a Free may be given: those that carry a header
Headed == {b \in ptrs : b.hdr}

InitArena ==
    /\ pc = "run"
    /\ head = 0
    /\ arena = [i \in {"A"} |-> arena_new("heap", ArenaBase(i), ArenaCapacity(i))]
    /\ mem = [a \in ArenaAddrs("A") |-> Undef]
    /\ pool = NoPool
    /\ marks = {}
    /\ rst = NoMark
    /\ ptrs = {}
    /\ last = NoOp
    /\ budget = MaxArenaOps
    /\ calls = <<>>
    /\ InitStrings
    /\ InitLists

NextArena ==
    \/ \E i \in DOMAIN arena, size \in ArenaSizes : ArenaAlloc(i, size)
    \/ \E i \in DOMAIN arena, size \in ArenaAllocSizes : ArenaAllocate(i, size)
    \/ \E i \in DOMAIN arena, size \in ArenaAllocSizes : ArenaZeroAllocate(i, size)
    \/ \E i \in DOMAIN arena, b \in Headed \cup {NoBlock}, size \in ArenaAllocSizes :
          ArenaReallocate(i, b, size)
    \/ \E i \in DOMAIN arena, b \in Headed : ArenaFree(i, b)
    \/ \E b \in ptrs : Fill(b)

SpecArena == InitArena /\ [][NextArena]_vars

----------------------------------------------------------------------------
(* The life of an arena: arena_new on a backing allocator, allocations     *)
(* from the arena, free_arena.  The backing allocator is the heap, whose   *)
(* malloc may fail, or the temporary allocator.  The bytes of the Arena    *)
(* struct are held in the variable arena and not in mem; mem holds the     *)
(* bytes after the struct.                                                 *)

Backings == {"heap", "temp"}

\* capacities arena_new is asked for; the sum of the last one with
\* sizeof(Arena) wraps
LifeCaps == {8, 48, U64 - 8}

\* sizes asked of an arena in its life
LifeSizes == {8}

\* a call to a backing allocator: to, the allocator; msg, size, ptr, the
\* arguments; ret, what came back; for, the arena it was made for
Call(to, msg, size, ptr, ret, for) ==
    [to |-> to, msg |-> msg, size |-> size, ptr |-> ptr, ret |-> ret, for |-> for]

\* heap_allocator_proc, ALLOC for the arena i: malloc(size) fails, or returns
\* a region of size bytes at ArenaBase(i)
heap_alloc_arena(i, m, size, ok) ==
    IF ok
    THEN Result("run", head,
                [x \in DOMAIN m \cup
                        ((ArenaBase(i) + ArenaStructSize)..(ArenaBase(i) + size - 1)) |->
                    IF x \in DOMAIN m THEN m[x] ELSE Undef],
                ArenaBase(i), 0)
    ELSE Result("run", head, m, NULL, 0)

\* heap_allocator_proc, FREE: free(p) of a region of size bytes
heap_free_arena(m, p, size) ==
    [x \in DOMAIN m \ (p..(p + size - 1)) |-> m[x]]

\* the address of an Arena struct: arena->mem = (u8 *)arena + sizeof(Arena)
ArenaAddr(ar) == ar.mem - ArenaStructSize

\* a free_arena that passes the arena's memory instead of the arena
free_arena_ptr_mem(ar) == ar.mem

\* the pointer free_arena passes to alloc_free: the arena itself
free_arena_ptr(ar) == ArenaAddr(ar)

\* Arena *arena = arena_new(a, size); in the history, blk.by is a and pre
\* the calls made before
ArenaNew(i, a, size, ok) ==
    LET request == (size + ArenaStructSize) % U64
        r == IF a = "temp" THEN temporary_allocator_proc_ALLOC(head, mem, request)
             ELSE heap_alloc_arena(i, mem, request, ok)
        \* the struct is written into the block returned
        fits == IF a = "temp" THEN Mapped(r.mem, r.ret, ArenaStructSize)
                ELSE request >= ArenaStructSize
        made == r.pc = "run" /\ r.ret # NULL /\ fits
    IN  /\ Running
        /\ i \notin DOMAIN arena
        /\ a = "temp" => ok
        /\ pc' = IF r.pc = "run" /\ r.ret # NULL /\ ~fits THEN "ub" ELSE r.pc
        /\ head' = r.head
        /\ mem' = r.mem
        /\ arena' = IF made
                     THEN [j \in DOMAIN arena \cup {i} |->
                             IF j = i THEN arena_new(a, r.ret, size) ELSE arena[j]]
                     ELSE arena
        /\ calls' = Append(calls, Call(a, "ALLOC", request, NULL, r.ret, i))
        /\ last' = Op("arena_new", i, size, Block(NULL, 0, a, FALSE),
                      IF made THEN r.ret ELSE NULL, 0, calls, rst, Changed(mem, r.mem))
        /\ rst' = NoMark
        /\ budget' = budget - 1
        /\ UNCHANGED <<pool, marks, ptrs, stringVars, listVars>>

\* the bytes the backing allocator was asked for when arena i was made
Requested(i) ==
    LET made == {k \in 1..Len(calls) : calls[k].for = i /\ calls[k].msg = "ALLOC"}
    IN  calls[CHOOSE k \in made : \A l \in made : l <= k].size

\* free_arena(arena); in the history, size is the number of blocks the
\* caller held from the arena and pre the calls made before
FreeArena(i) ==
    LET ar == arena[i]
        p == free_arena_ptr(ar)
        freed == ar.a = "heap" /\ p = ArenaBase(i)
    IN  /\ Running
        /\ i \in DOMAIN arena
        /\ pc' = IF ar.a = "heap" /\ ~freed THEN "ub" ELSE pc
        /\ mem' = IF freed THEN heap_free_arena(mem, p, Requested(i)) ELSE mem
        /\ arena' = [j \in DOMAIN arena \ {i} |-> arena[j]]
        /\ ptrs' = {b \in ptrs : b.by # i}
        /\ calls' = Append(calls, Call(ar.a, "FREE", 0, p, NULL, i))
        /\ last' = Op("free_arena", i, Cardinality({b \in ptrs : b.by = i}), NoBlock, NULL, 0,
                      calls, rst, Changed(mem, mem'))
        /\ rst' = NoMark
        /\ budget' = budget - 1
        /\ UNCHANGED <<head, pool, marks, stringVars, listVars>>

\* free_arena(NULL): assert_not_null(arena, ...)
FreeArenaNull ==
    /\ Running
    /\ pc' = "panic"
    /\ last' = Op("free_arena", "null", 0, NoBlock, NULL, 0, calls, rst, {})
    /\ rst' = NoMark
    /\ budget' = budget - 1
    /\ UNCHANGED <<head, mem, arena, pool, marks, ptrs, calls, stringVars, listVars>>

InitLife ==
    /\ pc = "run"
    /\ head = 0
    /\ mem = [a \in TempAddrs |-> 0]
    /\ arena = <<>>
    /\ pool = NoPool
    /\ marks = {}
    /\ rst = NoMark
    /\ ptrs = {}
    /\ last = NoOp
    /\ budget = MaxLifeOps
    /\ calls = <<>>
    /\ InitStrings
    /\ InitLists

NextLife ==
    \/ \E i \in ArenaIds, a \in Backings, size \in LifeCaps, ok \in BOOLEAN :
          ArenaNew(i, a, size, ok)
    \/ \E i \in DOMAIN arena, size \in LifeSizes : ArenaAlloc(i, size)
    \/ \E i \in DOMAIN arena, size \in LifeSizes : ArenaAllocate(i, size)
    \/ \E i \in DOMAIN arena : FreeArena(i)
    \/ FreeArenaNull

SpecLife == InitLife /\ [][NextLife]_vars

----------------------------------------------------------------------------
(* The pool.  get_pool_allocator obtains init_size bytes from its backing  *)
(* allocator; the _pool struct {a, cap, size, mem} lies at the start of    *)
(* that region.  The variable pool holds                                   *)
(*   data            the a.data of the caller's Pool handle,               *)
(*   live, bytes     the region the backing allocator holds for the pool   *)
(*                   and the bytes it was last asked for,                  *)
(*   cap, size, mem  the fields of the _pool struct in that region,        *)
(*   grown           history: the Reallocates the pool has obtained from   *)
(*                   its backing allocator.                                *)
(* The pool here is backed by the heap allocator, whose realloc may fail,  *)
(* grow the region in place or move it; a region it has moved is freed,    *)
(* and a later access to it is "ub".                                       *)

\* where malloc put the pool's first region
PoolBase == 4096

PoolAddrs(base, bytes) == (base + PoolStructSize)..(base + bytes - 1)

GrowthOutcomes == {"fail", "inplace", "moved"}

PoolResult(p, pl, m, r, c) == [pc |-> p, pool |-> pl, mem |-> m, ret |-> r, ncopy |-> c]

get_pool_allocator(base, init_size) ==
    [data |-> base, live |-> base, bytes |-> init_size,
     cap |-> init_size, size |-> 0, mem |-> base + PoolStructSize, grown |-> 0]

\* realloc(old, bytes) of the heap allocator on the pool's region, with
\* outcome g: the memory afterwards
heap_realloc_mem(pl, m, bytes, g) ==
    LET new == IF g = "moved" THEN pl.live + 512 ELSE pl.live
        kept == DOMAIN m \ PoolAddrs(pl.live, pl.bytes)
    IN  [x \in kept \cup PoolAddrs(new, bytes) |->
            IF x \in kept THEN m[x]
            ELSE IF x - new < pl.bytes /\ (x - new + pl.live) \in DOMAIN m
            THEN m[x - new + pl.live]
            ELSE Undef]

\* if (pool->size + size + hdr_size > pool->cap)
\*     pool = alloc_realloc(pool->a, pool, pool->cap * 2);
pool_grow(pl, m, size, g) ==
    IF (pl.size + size + HeaderSize) % U64 > pl.cap
    THEN IF g = "fail"
         THEN PoolResult("panic", pl, m, NULL, 0)
         ELSE PoolResult("run",
                         [pl EXCEPT !.live = IF g = "moved" THEN pl.live + 512 ELSE pl.live,
                                    !.bytes = (pl.cap * 2) % U64,
                                    !.grown = pl.grown + 1],
                         heap_realloc_mem(pl, m, (pl.cap * 2) % U64, g), NULL, 0)
    ELSE PoolResult("run", pl, m, NULL, 0)

\* the entry of pool_allocator_proc: the handle's struct is read, and the
\* region is grown when the request does not fit
pool_enter(pl, m, size, g) ==
    IF pl.data = NULL THEN PoolResult("panic", pl, m, NULL, 0)
    ELSE IF pl.data # pl.live THEN PoolResult("ub", pl, m, NULL, 0)
    ELSE pool_grow(pl, m, size, g)

pool_allocator_proc_ALLOC(pl, m, size, g) ==
    LET e == pool_enter(pl, m, size, g)
        ptr == e.pool.mem + e.pool.size
    IN  IF e.pc # "run" THEN e
        ELSE IF ~Mapped(e.mem, ptr, HeaderSize) THEN PoolResult("ub", e.pool, e.mem, NULL, 0)
        ELSE PoolResult("run",
                        [e.pool EXCEPT !.size = (e.pool.size + size + HeaderSize) % U64],
                        WriteHeader(e.mem, ptr, POOL_BLOCK_SIGNATURE, size),
                        ptr + HeaderSize, 0)

\* g1 is the outcome of the growth at the entry, g2 of the growth inside the
\* alloc(a, size) the Reallocate makes through the caller's handle
pool_allocator_proc_REALLOC(pl, m, size, old_ptr, g1, g2) ==
    LET e == pool_enter(pl, m, size, g1)
    IN  IF e.pc # "run" THEN e
        ELSE IF old_ptr = NULL THEN e
        ELSE IF ~Mapped(e.mem, _get_block_header(old_ptr), HeaderSize)
        THEN PoolResult("ub", e.pool, e.mem, NULL, 0)
        ELSE IF ReadBytes(e.mem, _get_block_header(old_ptr), 8) # POOL_BLOCK_SIGNATURE
        THEN e
        ELSE LET oldsize == ReadU64(e.mem, _get_block_header(old_ptr) + 8)
                 r == pool_allocator_proc_ALLOC(e.pool, e.mem, size, g2)
             IN  IF size < oldsize THEN PoolResult("panic", e.pool, e.mem, NULL, 0)
                 ELSE IF r.pc # "run" \/ r.ret = NULL THEN r
                 ELSE IF ~Mapped(r.mem, r.ret, oldsize) \/ ~Mapped(r.mem, old_ptr, oldsize)
                 THEN PoolResult("ub", r.pool, r.mem, NULL, 0)
                 ELSE PoolResult("run", r.pool,
                                 copy_memory(r.mem, r.ret, old_ptr, oldsize), r.ret, oldsize)

\* free_pool(p): _pool *dat = p->data; alloc_free(dat->a, dat); p->data = NULL.
\* dat->a is read from the region the handle points to, and that region is
\* given to the heap's free: a handle left behind by a growth that moved the
\* region reads and frees memory already released
free_pool(pl, m) ==
    IF pl.data # pl.live THEN PoolResult("ub", pl, m, NULL, 0)
    ELSE PoolResult("run",
                    [pl EXCEPT !.data = NULL, !.live = NULL, !.bytes = 0],
                    [x \in DOMAIN m \ PoolAddrs(pl.live, pl.bytes) |-> m[x]],
                    NULL, 0)

----------------------------------------------------------------------------
(* Operations on the pool *)

PoolStep(r) ==
    /\ pc' = r.pc
    /\ pool' = r.pool
    /\ mem' = r.mem
    /\ rst' = NoMark
    /\ budget' = budget - 1
    /\ UNCHANGED <<head, arena, marks, calls, stringVars, listVars>>

\* alloc(pool, size)
PoolAllocate(size, g) ==
    LET r == pool_allocator_proc_ALLOC(pool, mem, size, g)
    IN  /\ Running
        /\ PoolStep(r)
        /\ ptrs' = Issued(r, size, "pool")
        /\ last' = Op("alloc", "pool", size, NoBlock, r.ret, 0, pool, rst,
                     Changed(mem, r.mem))

\* alloc_realloc(pool, p, size)
PoolReallocate(b, size, g1, g2) ==
    LET r == pool_allocator_proc_REALLOC(pool, mem, size, b.p, g1, g2)
    IN  /\ Running
        /\ PoolStep(r)
        /\ ptrs' = Issued(r, size, "pool")
        /\ last' = Op("realloc", "pool", size, b, r.ret, r.ncopy, pool, rst,
                     Changed(mem, r.mem))

\* free_pool(&p)
PoolFree ==
    /\ Running
    /\ pool.data # NULL
    /\ \E r \in {free_pool(pool, mem)} :
           /\ PoolStep(r)
           /\ ptrs' = ptrs
           /\ last' = Op("free_pool", "pool", 0, NoBlock, r.ret, 0, pool, rst,
                        Changed(mem, r.mem))

----------------------------------------------------------------------------
(* An Allocator value is the pair {data, proc}.  The wrappers alloc,        *)
(* alloc_zero, alloc_realloc and alloc_free check proc and then call it    *)
(* with the message; here they are given an Allocator whose proc is null,  *)
(* or whose data is null although its proc is the arena's or the pool's.   *)

Allocator(proc, data) == [proc |-> proc, data |-> data]

\* a proc that is the null pointer
NullProc == "null"

Messages == {"ALLOC", "ZERO_ALLOC", "REALLOC", "FREE"}

\* Allocators that were never initialised, or made from a null Arena or Pool
NullAllocators ==
    {Allocator(NullProc, NULL), Allocator(NullProc, ArenaBase("A")),
     Allocator("arena", NULL), Allocator("pool", NULL)}

DispatchResult(p, r) == [pc |-> p, ret |-> r]

\* arena_allocator_proc with a.data = NULL; the alloc(a, size) of its
\* REALLOC case comes back to the ALLOC case, which returns the null arena
arena_allocator_proc_null(m, msg, size, old_ptr) ==
    CASE msg = "ALLOC" -> DispatchResult("run", NULL)
      [] msg = "ZERO_ALLOC" -> DispatchResult("run", NULL)
      [] msg = "REALLOC" ->
            IF old_ptr = NULL THEN DispatchResult("run", NULL)
            ELSE IF ~Mapped(m, _get_block_header(old_ptr), HeaderSize)
            THEN DispatchResult("ub", NULL)
            ELSE DispatchResult("run", NULL)
      [] msg = "FREE" -> DispatchResult("panic", NULL)

\* pool_allocator_proc with a.data = NULL: assert_not_null(a.data, ...)
pool_allocator_proc_null(m, msg, size, old_ptr) == DispatchResult("panic", NULL)

\* alloc, alloc_zero, alloc_realloc, alloc_free: assert_not_null(a.proc, ...);
\* then a.proc(a, msg, size, p)
alloc_wrapper(a, m, msg, size, old_ptr) ==
    IF a.proc = NullProc THEN DispatchResult("panic", NULL)
    ELSE IF a.proc = "arena" THEN arena_allocator_proc_null(m, msg, size, old_ptr)
    ELSE pool_allocator_proc_null(m, msg, size, old_ptr)

\* the name of a null allocator in the history
NullName(a) == IF a.proc = NullProc THEN "null proc" ELSE a.proc \o " of null"

\* a wrapper is called with a null allocator; pre records the state of the
\* strategies before the call
NullDispatch(a, msg, size, b) ==
    LET r == alloc_wrapper(a, mem, msg, size, b.p)
    IN  /\ Running
        /\ pc' = r.pc
        /\ last' = Op(msg, NullName(a), size, b, r.ret, 0, <<head, arena, pool>>, rst, {})
        /\ rst' = NoMark
        /\ budget' = budget - 1
        /\ UNCHANGED <<head, mem, arena, pool, marks, ptrs, calls, stringVars, listVars>>

----------------------------------------------------------------------------
(* The three strategies side by side: blocks of one given to another *)

\* sizes asked for: one that fits every strategy, one that a fresh pool
\* must grow for
CrossSizes == {8, PoolInitSize - HeaderSize + 8}

InitCross ==
    /\ pc = "run"
    /\ head = 0
    /\ arena = [i \in ArenaIds |-> arena_new("heap", ArenaBase(i), ArenaCapacity(i))]
    /\ pool = get_pool_allocator(PoolBase, PoolInitSize)
    /\ mem = [a \in TempAddrs \cup ArenaAddrs("A") \cup ArenaAddrs("B")
                    \cup PoolAddrs(PoolBase, PoolInitSize) |->
                IF a \in TempAddrs THEN 0 ELSE Undef]
    /\ marks = {}
    /\ rst = NoMark
    /\ ptrs = {}
    /\ last = NoOp
    /\ budget = MaxCrossOps
    /\ calls = <<>>
    /\ InitStrings
    /\ InitLists

NextCross ==
    \/ \E size \in CrossSizes : temp_alloc(size)
    \/ \E i \in ArenaIds, size \in CrossSizes : ArenaAllocate(i, size)
    \/ \E size \in CrossSizes, g \in GrowthOutcomes : PoolAllocate(size, g)
    \/ \E b \in Headed, size \in CrossSizes : temp_realloc(b, size)
    \/ \E i \in ArenaIds, b \in Headed, size \in CrossSizes : ArenaReallocate(i, b, size)
    \/ \E b \in Headed, size \in CrossSizes, g1, g2 \in GrowthOutcomes :
          PoolReallocate(b, size, g1, g2)
    \/ PoolFree
    \/ \E a \in NullAllocators, msg \in Messages, b \in Headed \cup {NoBlock} :
          NullDispatch(a, msg, 8, IF msg \in {"REALLOC", "FREE"} THEN b ELSE NoBlock)

SpecCross == InitCross /\ [][NextCross]_vars

----------------------------------------------------------------------------
(* Strings.  A String is {s, length, err}: a pointer, a byte count and the  *)
(* error flag.  The operations read and write the bytes s points to in     *)
(* mem; one that reaches a byte outside every live object is "ub".         *)

String(p, n, e) == [s |-> p, length |-> n, err |-> e]

ERROR_STRING == String(NULL, 0, TRUE)

\* the result of a string operation: the process state, the head of the
\* temporary allocator, the memory and the value returned
StrResult(p, h, m, r) == [pc |-> p, head |-> h, mem |-> m, ret |-> r]

ASCII_CASE_DIFFERENCE == 32

IS_UPPER(c) == c >= 65 /\ c <= 90

IS_LOWER(c) == c >= 97 /\ c <= 122

\* a str_view that does not test end against the length
str_view_no_end_check(s, start, end) ==
    IF s.err \/ start >= s.length \/ start > end
    THEN ERROR_STRING
    ELSE String(s.s + start, end - start, FALSE)

str_view(s, start, end) ==
    IF s.err \/ start >= s.length \/ end > s.length \/ start > end
    THEN ERROR_STRING
    ELSE String(s.s + start, end - start, FALSE)

\* the bytes of s rewritten one by one with f
MapBytes(m, s, f(_)) ==
    [x \in DOMAIN m |-> IF x >= s.s /\ x < s.s + s.length THEN f(m[x]) ELSE m[x]]

ToUpper(c) == IF IS_LOWER(c) THEN c - ASCII_CASE_DIFFERENCE ELSE c

ToLower(c) == IF IS_UPPER(c) THEN c + ASCII_CASE_DIFFERENCE ELSE c

str_upper(h, m, s) ==
    IF s.err THEN StrResult("run", h, m, ERROR_STRING)
    ELSE IF ~Mapped(m, s.s, s.length) THEN StrResult("ub", h, m, ERROR_STRING)
    ELSE StrResult("run", h, MapBytes(m, s, ToUpper), s)

str_lower(h, m, s) ==
    IF s.err THEN StrResult("run", h, m, ERROR_STRING)
    ELSE IF ~Mapped(m, s.s, s.length) THEN StrResult("ub", h, m, ERROR_STRING)
    ELSE StrResult("run", h, MapBytes(m, s, ToLower), s)

str_replace_char(h, m, s, old, new_c) ==
    LET Repl(c) == IF c = old THEN new_c ELSE c
    IN  IF s.err THEN StrResult("run", h, m, ERROR_STRING)
        ELSE IF ~Mapped(m, s.s, s.length) THEN StrResult("ub", h, m, ERROR_STRING)
        ELSE StrResult("run", h, MapBytes(m, s, Repl), s)

\* the loop of str_reverse: the bytes i and length - i - 1 are swapped for
\* every i below length / 2
str_reverse(h, m, s) ==
    IF s.err THEN StrResult("run", h, m, ERROR_STRING)
    ELSE IF s.length \div 2 > 0 /\ ~Mapped(m, s.s, s.length)
    THEN StrResult("ub", h, m, ERROR_STRING)
    ELSE StrResult("run", h,
                   [x \in DOMAIN m |->
                       IF x >= s.s /\ x < s.s + s.length
                       THEN m[s.s + (s.length - (x - s.s) - 1)]
                       ELSE m[x]],
                   s)

\* the first index from i on at which the loop of str_equal stops: a byte
\* that differs, a byte that is not mapped, or the length
RECURSIVE equal_loop(_, _, _, _)
equal_loop(m, a, b, i) ==
    IF i >= a.length THEN StrResult("run", 0, m, TRUE)
    ELSE IF (a.s + i) \notin DOMAIN m \/ (b.s + i) \notin DOMAIN m
    THEN StrResult("ub", 0, m, FALSE)
    ELSE IF m[a.s + i] # m[b.s + i] THEN StrResult("run", 0, m, FALSE)
    ELSE equal_loop(m, a, b, i + 1)

str_equal(h, m, a, b) ==
    IF a.err \/ b.err \/ a.length # b.length THEN StrResult("run", h, m, FALSE)
    ELSE [equal_loop(m, a, b, 0) EXCEPT !.head = h]

RECURSIVE find_loop(_, _, _, _)
find_loop(m, s, c, i) ==
    IF i >= s.length THEN StrResult("run", 0, m, -1)
    ELSE IF (s.s + i) \notin DOMAIN m THEN StrResult("ub", 0, m, -1)
    ELSE IF m[s.s + i] = c THEN StrResult("run", 0, m, i)
    ELSE find_loop(m, s, c, i + 1)

str_find_char(h, m, s, c) ==
    IF s.err THEN StrResult("run", h, m, -1)
    ELSE [find_loop(m, s, c, 0) EXCEPT !.head = h]

RECURSIVE find_reverse_loop(_, _, _, _)
find_reverse_loop(m, s, c, i) ==
    IF i < 0 THEN StrResult("run", 0, m, -1)
    ELSE IF (s.s + i) \notin DOMAIN m THEN StrResult("ub", 0, m, -1)
    ELSE IF m[s.s + i] = c THEN StrResult("run", 0, m, i)
    ELSE find_reverse_loop(m, s, c, i - 1)

str_find_char_reverse(h, m, s, c) ==
    IF s.err THEN StrResult("run", h, m, -1)
    ELSE [find_reverse_loop(m, s, c, s.length - 1) EXCEPT !.head = h]

\* a str_count that does not test the error flag
str_count_no_err_check(h, m, s, c) ==
    IF ~Mapped(m, s.s, s.length) THEN StrResult("ub", h, m, 0)
    ELSE StrResult("run", h, m,
                   Cardinality({i \in 0..(s.length - 1) : m[s.s + i] = c}))

str_count(h, m, s, c) ==
    IF s.err THEN StrResult("run", h, m, 0)
    ELSE IF ~Mapped(m, s.s, s.length) THEN StrResult("ub", h, m, 0)
    ELSE StrResult("run", h, m,
                   Cardinality({i \in 0..(s.length - 1) : m[s.s + i] = c}))

\* str_alloc(a, s) with the temporary allocator as a: the copy, and then the
\* store s.s[s.length] = 0 into the source
str_alloc(h, m, s) ==
    IF s.err THEN StrResult("run", h, m, ERROR_STRING)
    ELSE LET r == temporary_allocator_proc_ALLOC(h, m, (s.length + 1) % U64)
         IN  IF r.pc # "run" THEN StrResult(r.pc, r.head, r.mem, ERROR_STRING)
             ELSE IF r.ret = NULL THEN StrResult("run", r.head, r.mem, ERROR_STRING)
             ELSE IF \/ ~Mapped(r.mem, r.ret, s.length)
                     \/ ~Mapped(r.mem, s.s, s.length + 1)
             THEN StrResult("ub", r.head, r.mem, ERROR_STRING)
             ELSE StrResult("run", r.head,
                            [copy_memory(r.mem, r.ret, s.s, s.length)
                                EXCEPT ![s.s + s.length] = 0],
                            String(r.ret, s.length, FALSE))

\* str_concat(a, s1, s2) with the temporary allocator as a
str_concat(h, m, s1, s2) ==
    IF s1.err \/ s2.err THEN StrResult("run", h, m, ERROR_STRING)
    ELSE LET r == temporary_allocator_proc_ALLOC(h, m, (s1.length + s2.length + 1) % U64)
         IN  IF r.pc # "run" THEN StrResult(r.pc, r.head, r.mem, ERROR_STRING)
             ELSE IF r.ret = NULL THEN StrResult("run", r.head, r.mem, ERROR_STRING)
             ELSE IF \/ ~Mapped(r.mem, r.ret, s1.length + s2.length)
                     \/ ~Mapped(r.mem, s1.s, s1.length)
                     \/ ~Mapped(r.mem, s2.s, s2.length)
             THEN StrResult("ub", r.head, r.mem, ERROR_STRING)
             ELSE StrResult("run", r.head,
                            copy_memory(copy_memory(r.mem, r.ret, s1.s, s1.length),
                                        r.ret + s1.length, s2.s, s2.length),
                            String(r.ret, s1.length + s2.length, FALSE))

\* str_alloc_cstr(a, s) with the temporary allocator as a and the bytes cs
\* before the terminator of the C string s
str_alloc_cstr(h, m, cs) ==
    LET r == temporary_allocator_proc_ALLOC(h, m, (Len(cs) + 1) % U64)
    IN  IF r.pc # "run" THEN StrResult(r.pc, r.head, r.mem, ERROR_STRING)
        ELSE IF r.ret = NULL THEN StrResult("run", r.head, r.mem, ERROR_STRING)
        ELSE IF ~Mapped(r.mem, r.ret, Len(cs) + 1)
        THEN StrResult("ub", r.head, r.mem, ERROR_STRING)
        ELSE StrResult("run", r.head, WriteBytes(r.mem, r.ret, cs \o <<0>>),
                       String(r.ret, Len(cs), FALSE))

\* str_temp(s)
str_temp(h, m, cs) == str_alloc_cstr(h, m, cs)

----------------------------------------------------------------------------
(* The string builder {a, size, length, mem, err}.  Its backing allocator  *)
(* a is the heap, whose malloc and realloc may fail and whose realloc may  *)
(* move the block, the arena A, or the pool.                               *)

_STRINGBUILDER_START_SIZE == 64

\* where malloc puts the builder's buffer
BuilderBase == 8192

BuilderBackings == {"heap", "A", "pool"}

StringBuilder(a, size, length, p, e) ==
    [a |-> a, size |-> size, length |-> length, mem |-> p, err |-> e]

\* the result of an operation of the builder: the process state, the
\* builder, the memory, the arena A, the pool, the value returned and the
\* calls made to the backing allocator
BuildResult(p, b, m, ar, pl, r, cs) ==
    [pc |-> p, sb |-> b, mem |-> m, arena |-> ar, pool |-> pl, ret |-> r, calls |-> cs]

\* the result of a call to a backing allocator
BackResult(p, m, ar, pl, r) == [pc |-> p, mem |-> m, arena |-> ar, pool |-> pl, ret |-> r]

\* heap_allocator_proc, ALLOC for the builder: malloc(size) fails, or returns
\* size bytes at BuilderBase
heap_alloc_builder(m, size, g) ==
    IF g = "fail" THEN [mem |-> m, ret |-> NULL]
    ELSE [mem |-> [x \in DOMAIN m \cup (BuilderBase..(BuilderBase + size - 1)) |->
                      IF x \in DOMAIN m THEN m[x] ELSE Undef],
          ret |-> BuilderBase]

\* heap_allocator_proc, REALLOC: realloc(p, size) of a block of old bytes
\* fails, resizes the block in place, or moves it and frees the old one
heap_realloc_builder(m, p, old, size, g) ==
    IF g = "fail" THEN [mem |-> m, ret |-> NULL]
    ELSE LET new == IF g = "moved" THEN p + 1024 ELSE p
             kept == DOMAIN m \ (p..(p + old - 1))
         IN  [mem |-> [x \in kept \cup (new..(new + size - 1)) |->
                          IF x \in kept THEN m[x]
                          ELSE IF x - new < old THEN m[x - new + p]
                          ELSE Undef],
              ret |-> new]

\* alloc(a, size) for the builder
\* what the heap, the arena and the pool returned, as a BackResult
FromHeap(r, ar, pl) == BackResult("run", r.mem, ar, pl, r.ret)

FromArena(r, pl) == BackResult(r.pc, r.mem, r.arena, pl, r.ret)

FromPool(r, ar) == BackResult(r.pc, r.mem, ar, r.pool, r.ret)

builder_alloc(a, m, ar, pl, size, g) ==
    IF a = "heap" THEN FromHeap(heap_alloc_builder(m, size, g), ar, pl)
    ELSE IF a = "A" THEN FromArena(arena_allocator_proc_ALLOC(ar, m, size), pl)
    ELSE FromPool(pool_allocator_proc_ALLOC(pl, m, size, g), ar)

\* alloc_realloc(a, p, size) for the builder, whose block has old bytes
builder_realloc(a, m, ar, pl, p, old, size, g1, g2) ==
    IF a = "heap" THEN FromHeap(heap_realloc_builder(m, p, old, size, g1), ar, pl)
    ELSE IF a = "A" THEN FromArena(arena_allocator_proc_REALLOC(ar, m, size, p), pl)
    ELSE FromPool(pool_allocator_proc_REALLOC(pl, m, size, p, g1, g2), ar)

\* str_builder_new after its alloc, which returned r
builder_new_made(a, r) ==
    LET cs == <<Call(a, "ALLOC", _STRINGBUILDER_START_SIZE, NULL, r.ret, "sb")>>
    IN  IF r.pc # "run" \/ r.ret = NULL
        THEN BuildResult(r.pc, ERROR_STRING_BUILDER, r.mem, r.arena, r.pool, NULL, cs)
        ELSE BuildResult("run",
                         StringBuilder(a, _STRINGBUILDER_START_SIZE, 0, r.ret, FALSE),
                         r.mem, r.arena, r.pool, r.ret, cs)

str_builder_new(a, m, ar, pl, g) ==
    builder_new_made(a, builder_alloc(a, m, ar, pl, _STRINGBUILDER_START_SIZE, g))

\* u64 new_size = sb->size * 2;
\* while (new_size < sb->size + length) new_size *= 2;
\* a resize that doubles once and does not loop
resize_once(new_size, need) == new_size

RECURSIVE resize_loop(_, _)
resize_loop(new_size, need) ==
    IF new_size < need THEN resize_loop((new_size * 2) % U64, need) ELSE new_size

\* copy_memory(sb->mem + sb->length, bytes, length); sb->length += length;
\* r holds the memory and the allocators at that point, cs the calls made
append_copy(b, bs, readable, r, cs) ==
    IF ~readable \/ ~Mapped(r.mem, b.mem + b.length, Len(bs))
    THEN BuildResult("ub", b, r.mem, r.arena, r.pool, FALSE, cs)
    ELSE BuildResult("run", [b EXCEPT !.length = (b.length + Len(bs)) % U64],
                     WriteBytes(r.mem, b.mem + b.length, bs),
                     r.arena, r.pool, TRUE, cs)

\* the append after alloc_realloc(sb->a, sb->mem, new_size), which returned r
append_resized(b, bs, readable, new_size, r) ==
    LET cs == <<Call(b.a, "REALLOC", new_size, b.mem, r.ret, "sb")>>
    IN  IF r.pc # "run" THEN BuildResult(r.pc, b, r.mem, r.arena, r.pool, FALSE, cs)
        ELSE IF r.ret = NULL THEN BuildResult("run", b, r.mem, r.arena, r.pool, FALSE, cs)
        ELSE append_copy([b EXCEPT !.mem = r.ret, !.size = new_size], bs, readable, r, cs)

\* str_builder_append_bytes(sb, bytes, length) with the length bytes bs at
\* bytes; readable: bytes points to length bytes of a live object
str_builder_append_bytes(b, m, ar, pl, bs, readable, g1, g2) ==
    IF b.err THEN BuildResult("run", b, m, ar, pl, FALSE, <<>>)
    ELSE IF (b.length + Len(bs)) % U64 > b.size
    THEN append_resized(b, bs, readable,
                        resize_loop((b.size * 2) % U64, (b.size + Len(bs)) % U64),
                        builder_realloc(b.a, m, ar, pl, b.mem, b.size,
                                        resize_loop((b.size * 2) % U64, (b.size + Len(bs)) % U64),
                                        g1, g2))
    ELSE append_copy(b, bs, readable, BackResult("run", m, ar, pl, b.mem), <<>>)

\* str_builder_append(sb, s)
str_builder_append(b, m, ar, pl, s, g1, g2) ==
    IF s.err THEN BuildResult("run", b, m, ar, pl, FALSE, <<>>)
    ELSE IF s.s = NULL THEN BuildResult("panic", b, m, ar, pl, FALSE, <<>>)
    ELSE str_builder_append_bytes(b, m, ar, pl,
                                  IF Mapped(m, s.s, s.length)
                                  THEN ReadBytes(m, s.s, s.length)
                                  ELSE [i \in 1..s.length |-> Undef],
                                  Mapped(m, s.s, s.length), g1, g2)

\* str_builder_append_cstr(sb, s) with the bytes cs before the terminator of s
str_builder_append_cstr(b, m, ar, pl, cs, g1, g2) ==
    str_builder_append_bytes(b, m, ar, pl, cs, TRUE, g1, g2)

\* str_builder_to_string(sb): the terminator is appended, whatever that
\* append returns, and the String is made of the builder's fields
builder_string(r) == [r EXCEPT !.ret = String(r.sb.mem, (r.sb.length - 1) % U64, FALSE)]

str_builder_to_string(b, m, ar, pl, g1, g2) ==
    builder_string(str_builder_append_bytes(b, m, ar, pl, <<0>>, TRUE, g1, g2))

----------------------------------------------------------------------------
(* Operations on the string builder *)

\* op: the operation; args: its arguments; ret: what it returned; pre: the
\* head, the builder, the arena A and the pool before it; changed: the
\* addresses whose byte it changed; calls: the calls to the backing
\* allocator it made
StrOp(op, args, ret, changed, cs) ==
    [op |-> op, args |-> args, ret |-> ret,
     pre |-> [head |-> head, sb |-> sb, arena |-> arena, pool |-> pool],
     changed |-> changed, calls |-> cs]

\* the arena a builder on the arena uses
NoArena == [mem |-> NULL, pos |-> 0, size |-> 0, a |-> "none"]

BuilderArena == IF "A" \in DOMAIN arena THEN arena["A"] ELSE NoArena

BuilderStep(r) ==
    /\ pc' = r.pc
    /\ sb' = r.sb
    /\ mem' = r.mem
    /\ arena' = IF "A" \in DOMAIN arena THEN [arena EXCEPT !["A"] = r.arena] ELSE arena
    /\ pool' = r.pool
    /\ calls' = calls \o r.calls
    /\ budget' = budget - 1
    /\ UNCHANGED <<head, marks, rst, ptrs, last, listVars>>

\* a builder has been asked for and not yet been made into a String
Building == IF sb.a # "none" THEN TRUE ELSE sop.op = "str_builder_new"

\* the sizes of the append stay within the bounds of the model
WithinBounds(n) ==
    IF sb.err THEN TRUE
    ELSE /\ 2 * (sb.size + n) < U64
         /\ resize_loop(sb.size * 2, sb.size + n) <= MaxBuilderSize

\* StringBuilder sb = str_builder_new(a)
BuilderNew(a, g) ==
    /\ Running
    /\ sb.a = "none"
    /\ \E r \in {str_builder_new(a, mem, BuilderArena, pool, g)} :
           /\ BuilderStep(r)
           /\ appended' = <<>>
           /\ sop' = StrOp("str_builder_new", <<a>>, r.ret, Changed(mem, r.mem), r.calls)

\* str_builder_append_cstr(&sb, s)
BuilderAppendCstr(cs, g1, g2) ==
    /\ Running
    /\ Building /\ sop.op # "str_builder_to_string"
    /\ WithinBounds(Len(cs))
    /\ \E r \in {str_builder_append_cstr(sb, mem, BuilderArena, pool, cs, g1, g2)} :
           /\ BuilderStep(r)
           /\ appended' = Append(appended, [bytes |-> cs, ok |-> r.ret])
           /\ sop' = StrOp("str_builder_append_cstr", <<cs>>, r.ret, Changed(mem, r.mem), r.calls)

\* str_builder_append(&sb, s)
BuilderAppend(s, g1, g2) ==
    /\ Running
    /\ Building /\ sop.op # "str_builder_to_string"
    /\ WithinBounds(s.length)
    /\ \E r \in {str_builder_append(sb, mem, BuilderArena, pool, s, g1, g2)} :
           /\ BuilderStep(r)
           /\ appended' = Append(appended,
                                  [bytes |-> IF ~s.err /\ Mapped(mem, s.s, s.length)
                                             THEN ReadBytes(mem, s.s, s.length)
                                             ELSE <<>>,
                                   ok |-> r.ret])
           /\ sop' = StrOp("str_builder_append", <<s>>, r.ret, Changed(mem, r.mem), r.calls)

\* String s = str_builder_to_string(&sb)
BuilderToString(g1, g2) ==
    /\ Running
    /\ Building /\ sop.op # "str_builder_to_string"
    /\ WithinBounds(1)
    /\ \E r \in {str_builder_to_string(sb, mem, BuilderArena, pool, g1, g2)} :
           /\ BuilderStep(r)
           /\ appended' = appended
           /\ sop' = StrOp("str_builder_to_string", <<>>, r.ret, Changed(mem, r.mem), r.calls)

\* "Hello " and "world!"
Hello == <<72, 101, 108, 108, 111, 32>>

World == <<119, 111, 114, 108, 100, 33>>

\* what is appended: nothing, the two words, as many bytes as fill the
\* first buffer after them, a whole first buffer, and more than one
Appendables == {<<>>, Hello, World, Pattern(52), Pattern(64), Pattern(70)}

InitBuilder ==
    /\ pc = "run"
    /\ head = 0
    /\ arena = [i \in {"A"} |-> arena_new("heap", ArenaBase(i), ArenaCapacity(i))]
    /\ pool = get_pool_allocator(PoolBase, PoolInitSize)
    /\ mem = [a \in ArenaAddrs("A") \cup PoolAddrs(PoolBase, PoolInitSize) |-> Undef]
    /\ marks = {}
    /\ rst = NoMark
    /\ ptrs = {}
    /\ last = NoOp
    /\ budget = MaxBuilderOps
    /\ calls = <<>>
    /\ InitStrings
    /\ InitLists

NextBuilder ==
    \/ \E a \in BuilderBackings, g \in GrowthOutcomes : BuilderNew(a, g)
    \/ \E cs \in Appendables, g1, g2 \in GrowthOutcomes : BuilderAppendCstr(cs, g1, g2)
    \/ \E g1, g2 \in GrowthOutcomes : BuilderToString(g1, g2)

SpecBuilder == InitBuilder /\ [][NextBuilder]_vars

----------------------------------------------------------------------------
(* Operations on strings.  The state at the start is the one after         *)
(* String full = str_temp("123456789").                                    *)

Digits == <<49, 50, 51, 52, 53, 54, 55, 56, 57>>

StrTemp0 == str_temp(0, [a \in TempAddrs |-> 0], Digits)

Full == StrTemp0.ret

\* the Strings a caller has: the full string, a window of it, the empty
\* windows at its start and at its end
StrInputs ==
    {Full, String(Full.s + 3, 3, FALSE), String(Full.s, 0, FALSE),
     String(Full.s + Full.length, 0, FALSE)}

\* error-flagged Strings: ERROR_STRING, a String that free_string has
\* flagged, and one whose pointer and length are whatever they were
ErrInputs == {ERROR_STRING, String(Full.s, Full.length, TRUE), String(4000, 5, TRUE)}

StringOps ==
    {"str_view", "str_upper", "str_lower", "str_replace_char", "str_reverse",
     "str_alloc", "str_concat"}

\* what an operation is given: those, and the String the last operation returned
Operands ==
    StrInputs \cup ErrInputs \cup (IF sop.op \in StringOps THEN {sop.ret} ELSE {})

\* the start and end a view is asked for
ViewBounds == {0, 3, 6, 9, 10}

\* '4', 'a'
Chars == {52, 97}

StrStep(r) ==
    /\ pc' = r.pc
    /\ head' = r.head
    /\ mem' = r.mem
    /\ budget' = budget - 1
    /\ UNCHANGED <<arena, pool, marks, rst, ptrs, last, calls, sb, appended, listVars>>

StrView(s, start, end) ==
    /\ Running
    /\ StrStep(StrResult("run", head, mem, str_view(s, start, end)))
    /\ sop' = StrOp("str_view", <<s, start, end>>, str_view(s, start, end), {}, <<>>)

StrUpper(s) ==
    LET r == str_upper(head, mem, s)
    IN  /\ Running
        /\ StrStep(r)
        /\ sop' = StrOp("str_upper", <<s>>, r.ret, Changed(mem, r.mem), <<>>)

StrLower(s) ==
    LET r == str_lower(head, mem, s)
    IN  /\ Running
        /\ StrStep(r)
        /\ sop' = StrOp("str_lower", <<s>>, r.ret, Changed(mem, r.mem), <<>>)

StrReplaceChar(s, old, new_c) ==
    LET r == str_replace_char(head, mem, s, old, new_c)
    IN  /\ Running
        /\ StrStep(r)
        /\ sop' = StrOp("str_replace_char", <<s, old, new_c>>, r.ret,
                        Changed(mem, r.mem), <<>>)

StrReverse(s) ==
    LET r == str_reverse(head, mem, s)
    IN  /\ Running
        /\ StrStep(r)
        /\ sop' = StrOp("str_reverse", <<s>>, r.ret, Changed(mem, r.mem), <<>>)

StrEqual(a, b) ==
    LET r == str_equal(head, mem, a, b)
    IN  /\ Running
        /\ StrStep(r)
        /\ sop' = StrOp("str_equal", <<a, b>>, r.ret, Changed(mem, r.mem), <<>>)

StrFindChar(s, c) ==
    LET r == str_find_char(head, mem, s, c)
    IN  /\ Running
        /\ StrStep(r)
        /\ sop' = StrOp("str_find_char", <<s, c>>, r.ret, Changed(mem, r.mem), <<>>)

StrFindCharReverse(s, c) ==
    LET r == str_find_char_reverse(head, mem, s, c)
    IN  /\ Running
        /\ StrStep(r)
        /\ sop' = StrOp("str_find_char_reverse", <<s, c>>, r.ret, Changed(mem, r.mem), <<>>)

StrCount(s, c) ==
    LET r == str_count(head, mem, s, c)
    IN  /\ Running
        /\ StrStep(r)
        /\ sop' = StrOp("str_count", <<s, c>>, r.ret, Changed(mem, r.mem), <<>>)

\* str_alloc(get_temporary_allocator(), s)
StrAlloc(s) ==
    LET r == str_alloc(head, mem, s)
    IN  /\ Running
        /\ StrStep(r)
        /\ sop' = StrOp("str_alloc", <<s>>, r.ret, Changed(mem, r.mem), <<>>)

\* str_concat(get_temporary_allocator(), s1, s2)
StrConcat(s1, s2) ==
    LET r == str_concat(head, mem, s1, s2)
    IN  /\ Running
        /\ StrStep(r)
        /\ sop' = StrOp("str_concat", <<s1, s2>>, r.ret, Changed(mem, r.mem), <<>>)

InitStr ==
    /\ pc = StrTemp0.pc
    /\ head = StrTemp0.head
    /\ mem = StrTemp0.mem
    /\ arena = <<>>
    /\ pool = NoPool
    /\ marks = {}
    /\ rst = NoMark
    /\ ptrs = {}
    /\ last = NoOp
    /\ budget = MaxStrOps
    /\ calls = <<>>
    /\ InitStrings
    /\ InitLists

NextStr ==
    \/ \E s \in Operands, start, end \in ViewBounds : StrView(s, start, end)
    \/ \E s \in Operands : StrUpper(s)
    \/ \E s \in Operands : StrLower(s)
    \/ \E s \in Operands, old, new_c \in Chars : StrReplaceChar(s, old, new_c)
    \/ \E s \in Operands : StrReverse(s)
    \/ \E a, b \in Operands : StrEqual(a, b)
    \/ \E s \in Operands, c \in Chars : StrFindChar(s, c)
    \/ \E s \in Operands, c \in Chars : StrFindCharReverse(s, c)
    \/ \E s \in Operands, c \in Chars : StrCount(s, c)
    \/ \E s \in Operands : StrAlloc(s)
    \/ \E s1, s2 \in Operands : StrConcat(s1, s2)
    \/ \E g \in GrowthOutcomes : BuilderNew("heap", g)
    \/ \E s \in Operands, g1, g2 \in GrowthOutcomes : BuilderAppend(s, g1, g2)

SpecStr == InitStr /\ [][NextStr]_vars

----------------------------------------------------------------------------
(* The list {a, cap, mem, size, item_size, err} and the sparse list, which  *)
(* is the same struct.  The backing allocator a is the heap, whose malloc  *)
(* and realloc may fail and whose realloc may move the block, or the       *)
(* temporary allocator.  An item is given as the item_size bytes at the    *)
(* caller's pointer.                                                       *)

ListBackings == {"heap", "temp"}

\* the result of a list operation: the process state, the list, the head of
\* the temporary allocator, the memory, the value returned and the calls
\* made to the backing allocator
ListResult(p, l, h, m, r, cs) ==
    [pc |-> p, list |-> l, head |-> h, mem |-> m, ret |-> r, calls |-> cs]

\* what the heap returned, as a Result
HeapResult(r, h) == Result("run", h, r.mem, r.ret, 0)

\* alloc(a, size) for the list
list_alloc(a, h, m, size, g) ==
    IF a = "heap" THEN HeapResult(heap_alloc_builder(m, size, g), h)
    ELSE temporary_allocator_proc_ALLOC(h, m, size)

\* alloc_realloc(a, p, size) for the list, whose block has old bytes
list_realloc(a, h, m, p, old, size, g) ==
    IF a = "heap" THEN HeapResult(heap_realloc_builder(m, p, old, size, g), h)
    ELSE temporary_allocator_proc_REALLOC(h, m, size, p)

\* list_new after its alloc of n bytes, which returned r
list_new_made(item_size, length, a, n, r) ==
    LET cs == <<Call(a, "ALLOC", n, NULL, r.ret, "list")>>
    IN  IF r.pc # "run" \/ r.ret = NULL
        THEN ListResult(r.pc, ERROR_LIST, r.head, r.mem, NULL, cs)
        ELSE ListResult("run",
                        [a |-> a, cap |-> length, mem |-> r.ret, size |-> 0,
                         item_size |-> item_size, err |-> FALSE],
                        r.head, r.mem, r.ret, cs)

list_new(item_size, length, a, h, m, g) ==
    list_new_made(item_size, length, a, (item_size * length) % U64,
                  list_alloc(a, h, m, (item_size * length) % U64, g))

\* copy_memory(dest, item, list->item_size) with the bytes item at the
\* caller's pointer
list_store(l, h, m, dest, item, cs) ==
    IF ~Mapped(m, dest, l.item_size) THEN ListResult("ub", l, h, m, NULL, cs)
    ELSE ListResult("run", l, h, WriteBytes(m, dest, item), NULL, cs)

\* list->size++ after the store
list_sized(r, size) == [r EXCEPT !.list.size = IF r.pc = "run" THEN size ELSE @]

\* u8 *dest = list->mem + (list->size * list->item_size);
\* copy_memory(dest, item, list->item_size); list->size++;
list_append_copy(l, h, m, item, cs) ==
    list_sized(list_store(l, h, m, l.mem + ((l.size * l.item_size) % U64), item, cs),
               (l.size + 1) % U64)

\* list_append after alloc_realloc(list->a, list->mem, new_size), which
\* returned r
list_append_grown(l, item, new_size, r) ==
    LET cs == <<Call(l.a, "REALLOC", new_size, l.mem, r.ret, "list")>>
    IN  IF r.pc # "run" \/ r.ret = NULL
        THEN ListResult(r.pc, l, r.head, r.mem, NULL, cs)
        ELSE list_append_copy([l EXCEPT !.cap = (l.cap * 2) % U64, !.mem = r.ret],
                              r.head, r.mem, item, cs)

list_append(l, h, m, item, g) ==
    IF l.err THEN ListResult("run", l, h, m, NULL, <<>>)
    ELSE IF l.size = l.cap
    THEN list_append_grown(l, item, (l.cap * 2 * l.item_size) % U64,
                           list_realloc(l.a, h, m, l.mem, (l.cap * l.item_size) % U64,
                                        (l.cap * 2 * l.item_size) % U64, g))
    ELSE list_append_copy(l, h, m, item, <<>>)

\* for (u64 i = size; i > 0; i--) dest[i-1] = source[i-1];
RECURSIVE move_loop_down(_, _, _, _)
move_loop_down(m, dest, source, i) ==
    IF i = 0 THEN m
    ELSE CHOOSE r \in {move_loop_down(n, dest, source, i - 1) :
                           n \in {[m EXCEPT ![dest + i - 1] = m[source + i - 1]]}} : TRUE

move_memory(m, dest, source, size) ==
    IF dest < source THEN copy_loop(m, dest, source, 0, size)
    ELSE move_loop_down(m, dest, source, size)

\* the list and the memory after a store to the list's elements
ListStored(p, l, m) == [pc |-> p, list |-> l, mem |-> m]

list_remove(l, m, index) ==
    IF l.err \/ index >= l.size THEN ListStored("run", l, m)
    ELSE LET source == l.mem + (((index + 1) * l.item_size) % U64)
             dest == source + l.item_size
             size == ((l.size - index - 1) * l.item_size) % U64
         IN  IF ~Mapped(m, source, size) \/ ~Mapped(m, dest, size)
             THEN ListStored("ub", l, m)
             ELSE ListStored("run", [l EXCEPT !.size = l.size - 1],
                             move_memory(m, dest, source, size))

list_put(l, m, index, item) ==
    IF l.err \/ index > l.size \/ index >= l.cap THEN ListStored("run", l, m)
    ELSE LET dest == l.mem + ((index * l.item_size) % U64)
         IN  IF ~Mapped(m, dest, l.item_size) THEN ListStored("ub", l, m)
             ELSE ListStored("run", l, WriteBytes(m, dest, item))

list_get(l, index) ==
    IF l.err \/ index >= l.size THEN NULL
    ELSE l.mem + ((index * l.item_size) % U64)

list_clear(l) == [l EXCEPT !.size = 0]

sparse_list_get(l, index) == list_get(l, index)

\* a removal that drops the last element without storing it at index
sparse_list_remove_no_copy(l, m, index) ==
    IF l.err \/ index >= l.size THEN ListStored("run", l, m)
    ELSE ListStored("run", [l EXCEPT !.size = l.size - 1], m)

sparse_list_remove(l, m, index) ==
    IF l.err \/ index >= l.size THEN ListStored("run", l, m)
    ELSE LET dest == sparse_list_get(l, index)
             src == sparse_list_get(l, l.size - 1)
         IN  IF dest = NULL \/ src = NULL THEN ListStored("panic", l, m)
             ELSE IF ~Mapped(m, dest, l.item_size) \/ ~Mapped(m, src, l.item_size)
             THEN ListStored("ub", l, m)
             ELSE ListStored("run", [l EXCEPT !.size = l.size - 1],
                             copy_memory(m, dest, src, l.item_size))

----------------------------------------------------------------------------
(* Operations on the list.  The state at the start is the one after        *)
(* List list = list_new(item_size, length, a).                             *)

\* the element at index i, as the bytes in memory
ElemAt(l, m, i) ==
    IF Mapped(m, l.mem + i * l.item_size, l.item_size)
    THEN ReadBytes(m, l.mem + i * l.item_size, l.item_size)
    ELSE <<>>

\* the elements of the list at indices 0 .. size - 1
Elems(l, m) == [i \in 1..l.size |-> ElemAt(l, m, i - 1)]

\* op: the operation; args: its arguments; ret: what it returned; pre: the
\* list, its elements and the head before it; changed: the addresses whose
\* byte it changed; calls: the calls to the backing allocator it made
ListOp(op, args, ret, changed, cs) ==
    [op |-> op, args |-> args, ret |-> ret,
     pre |-> [list |-> list, elems |-> Elems(list, mem), head |-> head],
     changed |-> changed, calls |-> cs]

\* the k-th item a caller gives: n bytes that differ from item to item
Item(k, n) == [j \in 1..n |-> 16 * k + j]

\* the item given next
NextItem == Item(Len(lseq) + 1, list.item_size)

ListIndexes == 0..2

ListStep(r) ==
    /\ pc' = r.pc
    /\ list' = r.list
    /\ mem' = r.mem
    /\ budget' = budget - 1
    /\ UNCHANGED <<arena, pool, marks, rst, ptrs, last, stringVars>>

\* list_append(&list, item) and sparse_list_append(&list, item)
ListAppend(op, g) ==
    /\ Running
    /\ \E r \in {list_append(list, head, mem, NextItem, g)} :
           /\ ListStep(r)
           /\ head' = r.head
           /\ calls' = calls \o r.calls
           /\ lseq' = Append(lseq, [op |-> "append", item |-> NextItem])
           /\ lop' = ListOp(op, <<NextItem>>, NULL, Changed(mem, r.mem), r.calls)

\* list_remove(&list, index)
ListRemove(index) ==
    /\ Running
    /\ \E r \in {list_remove(list, mem, index)} :
           /\ ListStep(r)
           /\ UNCHANGED <<head, calls>>
           /\ lseq' = Append(lseq, [op |-> "remove", item |-> <<>>])
           /\ lop' = ListOp("list_remove", <<index>>, NULL, Changed(mem, r.mem), <<>>)

\* sparse_list_remove(&list, index)
SparseListRemove(index) ==
    /\ Running
    /\ \E r \in {sparse_list_remove(list, mem, index)} :
           /\ ListStep(r)
           /\ UNCHANGED <<head, calls>>
           /\ lseq' = Append(lseq, [op |-> "sparse_remove", item |-> <<>>])
           /\ lop' = ListOp("sparse_list_remove", <<index>>, NULL, Changed(mem, r.mem), <<>>)

\* list_put(&list, index, item)
ListPut(index) ==
    /\ Running
    /\ \E r \in {list_put(list, mem, index, NextItem)} :
           /\ ListStep(r)
           /\ UNCHANGED <<head, calls>>
           /\ lseq' = Append(lseq, [op |-> "put", item |-> NextItem])
           /\ lop' = ListOp("list_put", <<index, NextItem>>, NULL, Changed(mem, r.mem), <<>>)

\* list_get(&list, index) and sparse_list_get(&list, index)
ListGet(index) ==
    /\ Running
    /\ ListStep(ListStored("run", list, mem))
    /\ UNCHANGED <<head, calls, lseq>>
    /\ lop' = ListOp("list_get", <<index>>, sparse_list_get(list, index), {}, <<>>)

\* list_clear(&list)
ListClear ==
    /\ Running
    /\ ListStep(ListStored("run", list_clear(list), mem))
    /\ UNCHANGED <<head, calls>>
    /\ lseq' = Append(lseq, [op |-> "clear", item |-> <<>>])
    /\ lop' = ListOp("list_clear", <<>>, NULL, {}, <<>>)

\* the item sizes and the lengths a list is created with
ListItemSizes == {3, 8}

ListLengths == {0, 1, 2}

\* the state after list_new(item_size, length, a), whose alloc had outcome g
ListNew0(item_size, length, a, g) ==
    list_new(item_size, length, a, 0, [x \in TempAddrs |-> 0], g)

InitList ==
    \E a \in ListBackings, item_size \in ListItemSizes, length \in ListLengths,
       g \in {"fail", "inplace"} :
        /\ pc = ListNew0(item_size, length, a, g).pc
        /\ head = ListNew0(item_size, length, a, g).head
        /\ mem = ListNew0(item_size, length, a, g).mem
        /\ list = ListNew0(item_size, length, a, g).list
        /\ calls = ListNew0(item_size, length, a, g).calls
        /\ lseq = <<>>
        /\ lop = [op |-> "list_new", args |-> <<item_size, length, a>>,
                  ret |-> ListNew0(item_size, length, a, g).list,
                  pre |-> [list |-> ERROR_LIST, elems |-> <<>>, head |-> 0],
                  changed |-> {}, calls |-> ListNew0(item_size, length, a, g).calls]
        /\ arena = <<>>
        /\ pool = NoPool
        /\ marks = {}
        /\ rst = NoMark
        /\ ptrs = {}
        /\ last = NoOp
        /\ budget = MaxListOps
        /\ InitStrings

NextList ==
    \/ \E op \in {"list_append", "sparse_list_append"}, g \in GrowthOutcomes : ListAppend(op, g)
    \/ \E index \in ListIndexes : ListRemove(index)
    \/ \E index \in ListIndexes : SparseListRemove(index)
    \/ \E index \in ListIndexes : ListPut(index)
    \/ \E index \in ListIndexes : ListGet(index)
    \/ ListClear

SpecList == InitList /\ [][NextList]_vars

----------------------------------------------------------------------------
(* Properties of the temporary allocator *)

Min(a, b) == IF a < b THEN a ELSE b

\* the smallest multiple of 8 that is >= h
AlignUp(h) == ((h + 7) \div 8) * 8

TempAllocOps == {"alloc", "zero_alloc", "realloc", "free"}

\* the execution so far has defined behaviour: no access outside a live object
Defined == pc # "ub"

\* C1: after any sequence of temporary-allocator operations the head offset
\* satisfies 0 <= head <= TEMP_ALLOC_BUFSIZE.
C1_HeadInBuffer == Defined => (0 <= head /\ head <= TEMP_ALLOC_BUFSIZE)

\* C2: an Allocate on the temporary allocator with
\* aligned_head + header_size + requested_size > capacity returns null to the
\* caller: the process goes on, the head is unchanged and no header is written.
C2_ExhaustionReturnsNull ==
    (/\ Defined /\ last.op = "alloc" /\ last.who = "temp"
     /\ AlignUp(last.pre) + HeaderSize + last.size > TEMP_ALLOC_BUFSIZE)
    => (pc = "run" /\ last.ret = NULL /\ head = last.pre /\ last.changed = {})

C4_HeadNeverDecreases ==
    (Defined /\ last.who = "temp" /\ last.op \in TempAllocOps)
    => /\ head >= last.pre
       /\ (last.op = "free" \/ (last.op = "realloc" /\ last.ret = NULL))
          => head = last.pre

\* C7: a successful Reallocate copies exactly min(old_size, new_size) bytes:
\* the first min(old_size, new_size) bytes of the new block equal the old
\* block's content and no byte outside the new block (its header and its
\* new_size payload bytes) is changed.
C7_ReallocCopiesMin ==
    (last.op = "realloc" /\ pc = "run" /\ last.ret # NULL)
    => /\ last.ncopy = Min(last.blk.n, last.size)
       /\ \A i \in 0..(Min(last.blk.n, last.size) - 1) :
             mem[last.ret + i] = mem[last.blk.p + i]
       /\ \A x \in last.changed :
             _get_block_header(last.ret) <= x /\ x < last.ret + last.size

----------------------------------------------------------------------------
(* Properties of the arena *)

\* the byte ranges arena_alloc has handed out from arena i: a block obtained
\* through the arena's allocator starts with its header
ArenaBlocks(i) ==
    {[lo |-> IF b.hdr THEN _get_block_header(b.p) ELSE b.p,
      len |-> IF b.hdr THEN (b.n + HeaderSize) % U64 ELSE b.n] :
        b \in {c \in ptrs : c.by = i}}

Disjoint(b1, b2) == b1.lo + b1.len <= b2.lo \/ b2.lo + b2.len <= b1.lo

\* C5: an arena_alloc(n) with n <= size - pos succeeds, returns mem + pos and
\* advances pos by exactly n; and any two blocks returned by the same arena
\* are disjoint and lie inside [mem, mem + size).
C5_ArenaAllocBumps ==
    /\ (last.op = "arena_alloc" /\ last.size <= arena[last.who].size - last.pre)
       => /\ last.ret = arena[last.who].mem + last.pre
          /\ arena[last.who].pos = last.pre + last.size
    /\ \A i \in DOMAIN arena :
          /\ \A b1, b2 \in ArenaBlocks(i) : b1 # b2 => Disjoint(b1, b2)
          /\ \A b \in ArenaBlocks(i) :
                arena[i].mem <= b.lo /\ b.lo + b.len <= arena[i].mem + arena[i].size

\* C6: an arena_alloc(n) with n > size - pos, for every 64-bit n, returns
\* null and leaves pos and the arena's memory unchanged.
C6_ArenaAllocFailsCleanly ==
    (last.op = "arena_alloc" /\ last.size > arena[last.who].size - last.pre)
    => /\ last.ret = NULL
       /\ arena[last.who].pos = last.pre
       /\ last.changed = {}

\* C10: Free through the temporary allocator and through an arena's
\* allocator returns normally and leaves the strategy's state unchanged.
C10_FreeIsNoOp ==
    (Defined /\ last.op = "free" /\ last.who \in {"temp"} \cup ArenaIds)
    => /\ pc = "run"
       /\ last.changed = {}
       /\ last.who = "temp" => head = last.pre
       /\ last.who \in ArenaIds => arena[last.who].pos = last.pre

----------------------------------------------------------------------------
(* Properties of blocks given to another strategy or instance *)

Strategy(who) == IF who \in ArenaIds THEN "arena" ELSE who

\* C8: Reallocate through the temporary, arena or pool allocator with a
\* block whose header carries another strategy's signature returns no block
\* and leaves the invoked strategy's state as it was: the temporary head, the
\* arena's position, the pool's used size, capacity and backing region.
C8_ForeignReallocFails ==
    (/\ Defined /\ last.op = "realloc" /\ last.blk # NoBlock
     /\ Strategy(last.blk.by) # Strategy(last.who))
    => /\ last.ret = NULL
       /\ last.changed = {}
       /\ last.who = "temp" => head = last.pre
       /\ last.who \in ArenaIds => arena[last.who].pos = last.pre
       /\ last.who = "pool" => pool = last.pre

\* C9: Reallocate through the allocator of one arena with a block issued by
\* another arena returns no block and does not advance the position.
C9_OtherArenaReallocFails ==
    (/\ Defined /\ last.op = "realloc" /\ last.who \in ArenaIds
     /\ last.blk.by \in ArenaIds /\ last.blk.by # last.who)
    => (last.ret = NULL /\ arena[last.who].pos = last.pre)

----------------------------------------------------------------------------
(* Properties of the life of an arena *)

\* C12: arena_new(a, capacity) issues one Allocate of capacity +
\* sizeof(Arena) bytes to a and nothing else; free_arena issues exactly one
\* Free, to the allocator the arena was created on and with the pointer that
\* allocator returned, whatever was allocated from the arena in between.
C12_ArenaLifeCalls ==
    /\ last.op = "arena_new"
       => /\ Len(calls) = Len(last.pre) + 1
          /\ SubSeq(calls, 1, Len(last.pre)) = last.pre
          /\ calls[Len(calls)].msg = "ALLOC"
          /\ calls[Len(calls)].size = (last.size + ArenaStructSize) % U64
          /\ calls[Len(calls)].to = last.blk.by
          /\ calls[Len(calls)].for = last.who
    /\ (last.op = "free_arena" /\ last.who # "null")
       => LET made == {k \in 1..Len(last.pre) :
                          last.pre[k].for = last.who /\ last.pre[k].msg = "ALLOC"}
              c == last.pre[CHOOSE k \in made : \A l \in made : l <= k]
          IN  /\ Len(calls) = Len(last.pre) + 1
              /\ SubSeq(calls, 1, Len(last.pre)) = last.pre
              /\ calls[Len(calls)].msg = "FREE"
              /\ calls[Len(calls)].to = c.to
              /\ calls[Len(calls)].ptr = c.ret

\* C12 witness: an arena that blocks were allocated from has been freed
C12_Witness ==
    /\ last.op = "free_arena" /\ last.who # "null" /\ pc = "run"
    /\ last.size >= 1
    /\ Len(calls) = 2

----------------------------------------------------------------------------
(* Properties of the string builder *)

\* the bytes of the appends that returned true, in order
RECURSIVE Accepted(_)
Accepted(as) ==
    IF as = <<>> THEN <<>>
    ELSE (IF Head(as).ok THEN Head(as).bytes ELSE <<>>) \o Accepted(Tail(as))

AllAccepted == \A k \in 1..Len(appended) : appended[k].ok

\* the capacity doubled until need fits
RECURSIVE FirstFit(_, _)
FirstFit(cap, need) == IF 2 * cap >= need THEN 2 * cap ELSE FirstFit(2 * cap, need)

\* C15: a builder on a pool of 64 bytes whose backing allocator does not
\* fail: the append that takes the total past 64 bytes completes
\* successfully after exactly one growth reallocation of the pool's backing
\* region, and the String made of the builder holds all appended bytes in
\* order.
C15_PoolBuilderGrowsOnce ==
    /\ (/\ pc # "panic"
        /\ sop.op = "str_builder_append_cstr" /\ sop.pre.sb.a = "pool"
        /\ sop.pre.sb.length <= PoolInitSize
        /\ sop.pre.sb.length + Len(sop.args[1]) > PoolInitSize)
       => /\ pc = "run" /\ sop.ret
          /\ pool.grown = sop.pre.pool.grown + 1
    /\ (/\ pc # "panic"
        /\ sop.op = "str_builder_to_string" /\ sop.pre.sb.a = "pool"
        /\ AllAccepted /\ Len(Accepted(appended)) > PoolInitSize)
       => /\ pc = "run" /\ ~sop.ret.err
          /\ sop.ret.length = Len(Accepted(appended))
          /\ Mapped(mem, sop.ret.s, sop.ret.length)
          /\ ReadBytes(mem, sop.ret.s, sop.ret.length) = Accepted(appended)

\* C19: the String made of a fresh builder whose appends all returned true
\* is not error-flagged, its bytes are the appended bytes in order, its
\* length is the sum of their lengths and its pointer is the builder's.
C19_BuilderRoundTrip ==
    (/\ pc = "run" /\ sop.op = "str_builder_to_string"
     /\ ~sop.pre.sb.err /\ AllAccepted)
    => /\ ~sop.ret.err
       /\ sop.ret.s = sb.mem
       /\ sop.ret.length = Len(Accepted(appended))
       /\ Mapped(mem, sop.ret.s, sop.ret.length)
       /\ ReadBytes(mem, sop.ret.s, sop.ret.length) = Accepted(appended)

\* C20: an append issues a Reallocate to the backing allocator exactly when
\* length + appended > capacity; the size asked for is the capacity doubled
\* until length + appended fits; when the Reallocate returns null the append
\* returns false and the builder is unchanged.
C20_AppendGrowth ==
    (/\ Defined /\ sop.op = "str_builder_append_cstr" /\ ~sop.pre.sb.err)
    => LET b == sop.pre.sb
           need == b.length + Len(sop.args[1])
       IN  /\ (sop.calls # <<>>) <=> (need > b.size)
           /\ sop.calls # <<>>
              => /\ Len(sop.calls) = 1
                 /\ sop.calls[1].msg = "REALLOC"
                 /\ sop.calls[1].size = FirstFit(b.size, need)
                 /\ sop.calls[1].ret = NULL => (sop.ret = FALSE /\ sb = b)
                 /\ sop.calls[1].ret # NULL /\ pc = "run" => sb.size = FirstFit(b.size, need)

----------------------------------------------------------------------------
(* Properties of strings *)

\* an argument of the operation just performed is an error-flagged String
ErrorArg ==
    IF sop.op \in {"str_equal", "str_concat"} THEN sop.args[1].err \/ sop.args[2].err
    ELSE IF sop.op \in {"none", "str_builder_new"} THEN FALSE
    ELSE sop.args[1].err

\* the operation just performed left the memory, the temporary allocator and
\* the builder as they were
Untouched == sop.changed = {} /\ head = sop.pre.head /\ sb = sop.pre.sb

\* C16: str_view(s, start, end) returns an error-flagged String whenever s is
\* error-flagged, start > end or end > s.length; and
\* str_view("123456789", 3, 6) is the view "456": not error-flagged, 3 bytes
\* at offset 3 of the original storage.
C16_ViewErrorsAndExample ==
    sop.op = "str_view"
    => LET s == sop.args[1]
           start == sop.args[2]
           end == sop.args[3]
       IN  /\ (s.err \/ start > end \/ end > s.length) => sop.ret.err
           /\ (s = Full /\ start = 3 /\ end = 6)
              => /\ sop.ret = String(Full.s + 3, 3, FALSE)
                 /\ ReadBytes(mem, Full.s, Full.length) = Digits
                    => ReadBytes(mem, sop.ret.s, sop.ret.length) = <<52, 53, 54>>

\* C16 witness: the view (3, 6) of "123456789" has been taken
C16_Witness ==
    /\ sop.op = "str_view" /\ sop.args = <<Full, 3, 6>>
    /\ ~sop.ret.err
    /\ ReadBytes(mem, Full.s, Full.length) = Digits

\* C17: for a String s without error and start <= end <= s.length, the ends
\* start = end = s.length and the empty string included, str_view returns
\* the window of end - start bytes at s.data + start, without error, and
\* allocates nothing.
C17_ViewInRange ==
    (/\ sop.op = "str_view" /\ ~sop.args[1].err
     /\ sop.args[2] <= sop.args[3] /\ sop.args[3] <= sop.args[1].length)
    => /\ sop.ret = String(sop.args[1].s + sop.args[2], sop.args[3] - sop.args[2], FALSE)
       /\ Untouched

\* C18: given an error-flagged String, an operation returns without reading
\* the String's bytes and with the process alive: str_upper, str_lower,
\* str_replace_char, str_reverse, str_view, str_alloc and str_concat return
\* an error-flagged String, str_equal false, str_find_char and
\* str_find_char_reverse -1, str_count 0, and str_builder_append false with
\* the builder unchanged; nothing in memory is changed.
C18_ErrorPoisoning ==
    ErrorArg
    => /\ pc = "run"
       /\ Untouched
       /\ sop.op \in StringOps => sop.ret.err
       /\ sop.op = "str_equal" => sop.ret = FALSE
       /\ sop.op \in {"str_find_char", "str_find_char_reverse"} => sop.ret = -1
       /\ sop.op = "str_count" => sop.ret = 0
       /\ sop.op = "str_builder_append" => (sop.ret = FALSE /\ sop.calls = <<>>)

\* C18 witness: a String that free_string has flagged, whose pointer and
\* length are still those of "123456789", has been counted in
C18_Witness ==
    /\ sop.op = "str_count" /\ sop.args[1] = String(Full.s, Full.length, TRUE)
    /\ sop.args[2] \in {mem[Full.s + i] : i \in 0..(Full.length - 1)}
    /\ pc = "run"

----------------------------------------------------------------------------
(* Properties of null allocators *)

\* C11: Allocate, ZeroAllocate, Reallocate and Free given an Allocator whose
\* dispatch procedure is null, or whose context is null for the arena or
\* the pool, panic with the state of every strategy untouched; they never
\* return to the caller.
C11_NullAllocatorPanics ==
    (Defined /\ last.op \in Messages)
    => (pc = "panic" /\ <<head, arena, pool>> = last.pre /\ last.changed = {})

----------------------------------------------------------------------------
(* Properties of the pool *)

\* the backing region of the pool: what the backing allocator holds for it
PoolRegion(pl) == [lo |-> pl.live, hi |-> pl.live + pl.bytes]

\* C13: a pool Allocate that does not fit the remaining capacity, with a
\* backing Reallocate that succeeds, enlarges the backing region so that the
\* request fits and returns a block whose header and size bytes lie wholly
\* inside the enlarged region.
C13_PoolGrowsAndFits ==
    (/\ Defined /\ pc # "panic" /\ last.op = "alloc" /\ last.who = "pool"
     /\ last.pre.size + last.size + HeaderSize > last.pre.cap)
    => /\ last.ret # NULL
       /\ pool.grown = last.pre.grown + 1
       /\ PoolRegion(pool).lo + PoolStructSize <= _get_block_header(last.ret)
       /\ last.ret + last.size <= PoolRegion(pool).hi

\* C14: Reallocate on a pool with a block of the pool and a new size smaller
\* than the block's size panics with the pool as it was before the call: no
\* growth and no allocation has happened.
C14_PoolShrinkPanicsFirst ==
    (/\ Defined /\ last.op = "realloc" /\ last.who = "pool"
     /\ last.blk.by = "pool" /\ last.size < last.blk.n)
    => (pc = "panic" /\ pool = last.pre /\ last.changed = {})


----------------------------------------------------------------------------
(* Properties of the temporary allocator's alignment *)

\* C23: a temporary Allocate writes the block header at the smallest
\* multiple of 8 that is >= head: with head 8-byte aligned there is no
\* padding and head advances by header_size + requested_size, otherwise the
\* padding is at most 7 bytes.
C23_AllocAlignsHead ==
    (/\ pc = "run" /\ last.op = "alloc" /\ last.who = "temp" /\ last.ret # NULL)
    => /\ _get_block_header(last.ret) = AlignUp(last.pre)
       /\ _get_block_header(last.ret) - last.pre <= 7
       /\ last.pre % 8 = 0 => head = (last.pre + HeaderSize + last.size) % U64


----------------------------------------------------------------------------
(* Properties of str_alloc *)

\* C25: str_alloc(a, s) on a String s without error returns a copy that is
\* byte-equal to s with a zero byte at index s.length of the new block, and
\* it writes only inside the newly allocated block: the bytes of s and the
\* byte at s.s[s.length] are unchanged.
C25_StrAllocWritesNewBlockOnly ==
    (/\ pc = "run" /\ sop.op = "str_alloc" /\ ~sop.args[1].err /\ ~sop.ret.err)
    => LET s == sop.args[1]
           r == sop.ret
       IN  /\ r.length = s.length
           /\ ReadBytes(mem, r.s, r.length) = ReadBytes(mem, s.s, s.length)
           /\ mem[r.s + s.length] = 0
           /\ sop.changed \subseteq (sop.pre.head)..(head - 1)
           /\ sop.changed \cap (s.s)..(s.s + s.length) = {}


----------------------------------------------------------------------------
(* Properties of a failed builder *)

\* C24: str_builder_to_string of a builder that is error-flagged, or whose
\* append of the terminating byte fails, returns an error-flagged String.
C24_FailedBuilderGivesErrorString ==
    (/\ pc = "run" /\ sop.op = "str_builder_to_string"
     /\ (sop.pre.sb.err \/ sb.length # sop.pre.sb.length + 1))
    => sop.ret.err


----------------------------------------------------------------------------
(* Properties of the builder's capacity *)

\* a call for the builder's memory that returned a block
GrantedToBuilder(c) == c.for = "sb" /\ c.ret # NULL

\* the calls to the backing allocator that gave the builder a block
Granted == SelectSeq(calls, GrantedToBuilder)

BuilderAppends == {"str_builder_append_cstr", "str_builder_append", "str_builder_to_string"}

\* C26: after an append (and so after a sequence of appends and
\* str_builder_to_string) the builder has length <= capacity, its capacity
\* is the number of bytes of the last request the backing allocator granted
\* for its memory and its pointer is the block granted; no append writes
\* outside the block it was given by the heap or by the arena.
C26_LengthWithinCapacity ==
    (/\ sop.op \in BuilderAppends /\ ~sop.pre.sb.err)
    => /\ pc = "run"
          => /\ sb.length <= sb.size
             /\ Granted # <<>>
             /\ Granted[Len(Granted)].size = sb.size
             /\ Granted[Len(Granted)].ret = sb.mem
             /\ Mapped(mem, sb.mem, sb.size)
       /\ sb.a # "pool" => pc # "ub"

\* C26 witness: an append that had the buffer reallocated has succeeded
C26_Witness ==
    /\ pc = "run" /\ sop.op = "str_builder_append_cstr" /\ sop.ret = TRUE
    /\ sop.calls # <<>> /\ sb.size > sop.pre.sb.size
    /\ sb.length > sop.pre.sb.size


----------------------------------------------------------------------------
(* Properties of the pool's region *)

\* C27: every block the pool hands out lies inside the bytes obtained from
\* the backing allocator: sizeof(_pool) + used size <= the bytes of the
\* backing region at all times, and an Allocate that needs no growth writes
\* no header outside the region.
C27_PoolUsedWithinRegion ==
    /\ (pc = "run" /\ pool.live # NULL) => PoolStructSize + pool.size <= pool.bytes
    /\ (/\ last.op = "alloc" /\ last.who = "pool"
        /\ last.pre.data = last.pre.live /\ pool.grown = last.pre.grown)
       => pc # "ub"

\* C28: the pool's bookkeeping designates its current backing region: the
\* handle's context points at the live region, the recorded capacity is the
\* region's size and the bump base lies inside the region; free_pool
\* releases the current region and no other.
C28_PoolBookkeepingCurrent ==
    /\ (pc = "run" /\ pool.live # NULL)
       => /\ pool.data = pool.live
          /\ pool.cap = pool.bytes
          /\ PoolRegion(pool).lo <= pool.mem /\ pool.mem < PoolRegion(pool).hi
    /\ (last.op = "free_pool") => pc # "ub"


----------------------------------------------------------------------------
(* Properties of the list *)

\* nothing but appends has been done to the list since list_new
OnlyAppends == \A i \in 1..Len(lseq) : lseq[i].op = "append"

\* every Reallocate made so far returned a block
ReallocatesSucceeded ==
    \A i \in 1..Len(calls) : calls[i].msg = "REALLOC" => calls[i].ret # NULL

\* the list was created without error and with capacity >= 1
CreatedNonEmpty == ~list.err /\ calls # <<>> /\ calls[1].size >= 1

\* C21: for a list created with capacity c >= 1 on an allocator whose
\* Reallocate succeeds, after n consecutive appends the size is n, get(i)
\* for i < n returns the i-th appended item unchanged and get(i) for i >= n
\* returns null.
C21_AppendThenGet ==
    (CreatedNonEmpty /\ OnlyAppends /\ ReallocatesSucceeded)
    => /\ pc = "run"
       /\ list.size = Len(lseq)
       /\ \A i \in 0..(Len(lseq) - 1) :
             /\ list_get(list, i) # NULL
             /\ Mapped(mem, list_get(list, i), list.item_size)
             /\ ReadBytes(mem, list_get(list, i), list.item_size) = lseq[i + 1].item
       /\ \A i \in Len(lseq)..(Len(lseq) + 2) : list_get(list, i) = NULL


\* n appends of the items k, k + 1, ... to the list of r, on the heap, whose
\* realloc resizes in place
RECURSIVE AppendN(_, _, _)
AppendN(r, k, n) ==
    IF n = 0 THEN r
    ELSE AppendN(list_append(r.list, r.head, r.mem, Item(k, r.list.item_size), "inplace"),
                 k + 1, n - 1)

\* sparse_list_remove of the indices 0, 1, ... n - 1 in turn
RECURSIVE SparseRemoveUpTo(_, _)
SparseRemoveUpTo(r, n) ==
    IF n = 0 THEN ListStored(r.pc, r.list, r.mem)
    ELSE CHOOSE s \in {sparse_list_remove(q.list, q.mem, n - 1) :
                           q \in {SparseRemoveUpTo(r, n - 1)}} : TRUE

\* items 1..10 appended to a list of capacity 2, then indices 0, 1, 2 removed
TenThenThreeRemoved == SparseRemoveUpTo(AppendN(ListNew0(8, 2, "heap", "inplace"), 1, 10), 3)

\* the elements of the list before the operation just performed could be read
PreReadable == \A k \in DOMAIN lop.pre.elems : lop.pre.elems[k] # <<>>

\* C22: sparse_list_remove(list, i) with i < size decrements size, stores the
\* former last element at index i and leaves every other remaining element
\* unchanged; with i >= size or an error-flagged list it changes nothing.
\* Removing indices 0, 1, 2 in turn from ten items leaves size 7 with the
\* last three items, last first, at indices 0, 1, 2.
C22_SparseRemoveSwapsLast ==
    /\ (lop.op = "sparse_list_remove" /\ PreReadable)
       => LET l0 == lop.pre.list
              e0 == lop.pre.elems
              i == lop.args[1]
          IN  /\ pc = "run"
              /\ IF ~l0.err /\ i < l0.size
                 THEN /\ list = [l0 EXCEPT !.size = l0.size - 1]
                      /\ Elems(list, mem) =
                            [k \in 1..(l0.size - 1) |->
                                IF k = i + 1 THEN e0[l0.size] ELSE e0[k]]
                      /\ lop.changed \subseteq
                            (l0.mem + i * l0.item_size)..(l0.mem + (i + 1) * l0.item_size - 1)
                 ELSE list = l0 /\ lop.changed = {}
    /\ TenThenThreeRemoved.pc = "run"
    /\ TenThenThreeRemoved.list.size = 7
    /\ \A i \in 0..2 :
          ElemAt(TenThenThreeRemoved.list, TenThenThreeRemoved.mem, i) = Item(10 - i, 8)

\* C22 witness: an element that is not the last has been removed from a list
\* of three elements with sparse_list_remove
C22_Witness ==
    /\ pc = "run" /\ lop.op = "sparse_list_remove"
    /\ lop.pre.list.size = 3 /\ lop.args[1] = 0 /\ list.size = 2
    /\ PreReadable


\* the bytes of the list's buffer: cap * item_size bytes at mem
ListBuffer(l) == (l.mem)..(l.mem + l.cap * l.item_size - 1)

\* C29: list_remove(list, i) with i < size removes the element at index i
\* and keeps the order: size decreases by one, the elements at indices < i
\* are unchanged, each element formerly at index j > i is at index j - 1,
\* and no byte outside the list's buffer is read or written (for a list
\* with size <= cap).
C29_RemoveKeepsOrder ==
    (/\ lop.op = "list_remove" /\ PreReadable
     /\ ~lop.pre.list.err /\ lop.args[1] < lop.pre.list.size
     /\ lop.pre.list.size <= lop.pre.list.cap)
    => LET l0 == lop.pre.list
           e0 == lop.pre.elems
           i == lop.args[1]
       IN  /\ pc = "run"
           /\ list = [l0 EXCEPT !.size = l0.size - 1]
           /\ Elems(list, mem) =
                 [k \in 1..(l0.size - 1) |-> IF k <= i THEN e0[k] ELSE e0[k + 1]]
           /\ lop.changed \subseteq ListBuffer(l0)


\* the operation just performed asked for a growth that the allocator refused
GrowthFailed ==
    /\ lop.op \in {"list_append", "sparse_list_append"}
    /\ lop.calls # <<>> /\ lop.calls[1].ret = NULL

\* C30: for a list created by list_new with any length >= 0, after any
\* sequence of list_append, list_put, list_remove, sparse_list_remove and
\* list_clear: size <= cap, every element written lies inside the
\* cap * item_size bytes most recently obtained from the allocator, and a
\* failed growth Reallocate leaves size, cap and mem unchanged.
C30_SizeWithinCap ==
    /\ (pc = "run" /\ ~list.err) => list.size <= list.cap
    /\ (lop.op \in {"list_put", "list_remove", "sparse_list_remove"})
       => lop.changed \subseteq ListBuffer(list)
    /\ (pc = "run" /\ GrowthFailed) => list = lop.pre.list

====
